---------------------------- MODULE Spec2Model ----------------------------
(***************************************************************************)
(* A model of the winget publish pipeline of relicta-tech/plugin-winget:   *)
(* WinGetPlugin.Execute / executePostPublish (plugin.go), the Hash Engine  *)
(* (hash.go), the Manifest Compiler (manifest.go) and the Repository       *)
(* Client (github.go).                                                     *)
(*                                                                         *)
(* Strings are sequences of symbols, so that SplitN, ReplaceAll and the    *)
(* formatting of paths and branch names are computed as the code computes  *)
(* them.  The symbols of configured text (identifiers, versions, URLs) are *)
(* single characters; a fixed text of the code ("manifests", ".yaml",      *)
(* "{{.") is one symbol.  Every network round trip is one step whose       *)
(* answer is chosen by the environment.                                    *)
(***************************************************************************)
EXTENDS Integers, Sequences, FiniteSets, TLC

(***************************************************************************)
(* Bounds of the model.                                                    *)
(***************************************************************************)
MaxInstallers == 2

(***************************************************************************)
(* String helpers.                                                         *)
(***************************************************************************)
\* strings.Index(s, sep) for a one-character sep: 0 when absent, else the
\* 1-based position of the first occurrence.
IndexOf(s, c) ==
    IF \E k \in 1..Len(s) : s[k] = c
    THEN CHOOSE k \in 1..Len(s) : s[k] = c /\ \A j \in 1..(k-1) : s[j] # c
    ELSE 0

\* strings.SplitN(s, sep, 2) for a one-character sep.
SplitN2(s, c) ==
    LET k == IndexOf(s, c)
    IN  IF k = 0 THEN <<s>>
        ELSE <<SubSeq(s, 1, k-1), SubSeq(s, k+1, Len(s))>>

\* A validity test that asks only for a separator; C12 does not hold of it.
isValidPackageID_AnySeparator(id) == IndexOf(id, ".") # 0

\* isValidPackageID (plugin.go).
isValidPackageID(id) ==
    IF id = <<>> THEN FALSE
    ELSE LET parts == SplitN2(id, ".")
         IN  IF Len(parts) # 2 THEN FALSE
             ELSE parts[1] # <<>> /\ parts[2] # <<>>

\* strings.ReplaceAll(s, old, new) for a non-empty old: non-overlapping
\* occurrences, scanned left to right.
RECURSIVE ReplaceAll(_, _, _)
ReplaceAll(s, old, new) ==
    IF Len(s) < Len(old) THEN s
    ELSE IF SubSeq(s, 1, Len(old)) = old
         THEN new \o ReplaceAll(SubSeq(s, Len(old)+1, Len(s)), old, new)
         ELSE <<s[1]>> \o ReplaceAll(Tail(s), old, new)

\* strings.ToLower on a one-byte string, for the bytes the model uses.  A
\* lead byte of a multi-byte character standing alone is invalid UTF-8:
\* strings.Map writes the replacement character U+FFFD for it.
ToLowerChar(c) ==
    CASE c = "M" -> "m"
      [] c = "0xC3" -> "U+FFFD"
      [] c = "P" -> "p"
      [] c = "I" -> "i"
      [] c = "A" -> "a"
      [] c = "S" -> "s"
      [] c = "K" -> "k"
      [] OTHER -> c

ToLower(s) == [k \in 1..Len(s) |-> ToLowerChar(s[k])]

\* All orders in which the keys of a Go map may be iterated.
Orders(S) == {o \in [1..Cardinality(S) -> S] : \A a \in S : \E k \in DOMAIN o : o[k] = a}

(***************************************************************************)
(* renderTemplate (plugin.go).  data is a function from keys to values;    *)
(* order is the order in which the map iteration visits the keys.          *)
(***************************************************************************)
Token(key) == <<"{{.">> \o key \o <<"}}">>

RECURSIVE renderTemplateIn(_, _, _)
renderTemplateIn(result, data, order) ==
    IF order = <<>> THEN result
    ELSE renderTemplateIn(ReplaceAll(result, Token(Head(order)), data[Head(order)]),
                          data, Tail(order))

renderTemplate(tmpl, data, order) == renderTemplateIn(tmpl, data, order)

KeyVersion == <<"Version">>
KeyPackageId == <<"PackageId">>

(***************************************************************************)
(* Inputs: the raw configuration and the request of one Execute call.      *)
(***************************************************************************)
PackageIDs == { <<"I", "d">>,            \* no separator
                <<".", "P">>,            \* empty namespace
                <<"P", ".">>,            \* empty name
                <<"M", ".", "A">>,       \* well formed
                <<"0xC3", "0x9C", ".", "A">> }  \* well formed; the namespace is the
                                         \* two-byte character U+00DC

Versions == { <<"1", ".", "0">>, <<"2">> }

InstallerConfigs ==
    { [URL |-> <<"h", "/">> \o Token(KeyVersion) \o <<".", "x">>,
       Architecture |-> "x64", Type |-> "msi", Scope |-> "machine",
       ProductCode |-> "", Switches |-> <<>>],
      [URL |-> <<"h", "/", "a">>,
       Architecture |-> "arm64", Type |-> "exe", Scope |-> "",
       ProductCode |-> "pc", Switches |-> <<>>] }

InstallerLists == UNION { [1..n -> InstallerConfigs] : n \in 0..MaxInstallers }

ForkOwners == { <<>>, <<"m", "e">> }

Tokens == { <<"t", "k">> }

HookPostPublish == "PostPublish"
Hooks == { HookPostPublish, "PrePublish" }

DefaultMetadata ==
    [Publisher |-> "My Org", Name |-> "My App", ShortDescription |-> "An app",
     License |-> "MIT"]

LocaleLists == { << [Locale |-> "en-US", Description |-> "Long"] >> }

DefaultTitle == Token(KeyPackageId) \o <<" ">> \o Token(KeyVersion)

BaseBranchMaster == <<"master">>

\* The configuration parseConfig returns.
Configs ==
    [PackageID : PackageIDs, GitHubToken : Tokens, Installers : InstallerLists,
     Metadata : {DefaultMetadata}, Locales : LocaleLists,
     PullRequest : [ForkOwner : ForkOwners, BaseBranch : {BaseBranchMaster},
                    Title : {DefaultTitle}],
     DryRun : BOOLEAN]

\* plugin.ExecuteRequest: the hook, the raw configuration (as parseConfig
\* reads it), the release context's version and the request's dry-run flag.
Requests == [Hook : Hooks, Config : Configs, Version : Versions, DryRun : BOOLEAN]


(***************************************************************************)
(* Errors are chains of strings (fmt.Errorf("...: %w", err) prepends its   *)
(* text); the nil error is the empty chain.                                *)
(***************************************************************************)
Nil == <<>>

Wrap(text, err) == <<text>> \o err

(***************************************************************************)
(* The network: what the environment may answer to one round trip.         *)
(***************************************************************************)
Statuses == {200, 201, 202, 204, 300, 404, 500}

Is2xx(status) == status >= 200 /\ status < 300

\* A response body as json.Decoder sees it: not decodable, or an object
\* with the fields the client reads (an absent field decodes to "").
BadBody == [valid |-> FALSE, login |-> <<>>, sha |-> <<>>, html_url |-> <<>>]

Logins == { <<"o", "c">>, <<"h", "b">> }
UserBodies == { [valid |-> TRUE, login |-> u, sha |-> <<>>, html_url |-> <<>>] : u \in Logins }
RefBodies == { [valid |-> TRUE, login |-> <<>>, sha |-> <<"c", "1">>, html_url |-> <<>>] }
PRURLs == { <<"p", "r", "1">>, <<"p", "r", "2">> }
PRBodies == { [valid |-> TRUE, login |-> <<>>, sha |-> <<>>, html_url |-> u] : u \in PRURLs }

\* client.Do failed: transport error, timeout or cancelled context.
NetErr == [neterr |-> TRUE, status |-> 0, body |-> BadBody]

\* A 204 response carries no body.
RestAnswers(bodies) ==
    {NetErr} \cup
    { [neterr |-> FALSE, status |-> s, body |-> b] :
        <<s, b>> \in { x \in Statuses \X (bodies \cup {BadBody}) :
                         x[1] = 204 => x[2] = BadBody } }

UserAnswers == RestAnswers(UserBodies)
RefAnswers == RestAnswers(RefBodies)
PRAnswers == RestAnswers(PRBodies)
PlainAnswers == RestAnswers({})

\* The bytes the server holds at a URL: fixed for the length of a run, and
\* different at different URLs.
ServedBytes(url) == <<"bytes@">> \o url

\* What the download of url may end in: client.Do fails, or a status with
\* a body that is read to its end or breaks off.
DownloadAnswers(url) ==
    { [neterr |-> TRUE, status |-> 0, readerr |-> FALSE, content |-> <<>>] } \cup
    [neterr : {FALSE}, status : Statuses, readerr : BOOLEAN, content : {ServedBytes(url)}]

NoAnswer == [neterr |-> FALSE, status |-> 0]

\* What a round trip started under the context c may end in: with c
\* cancelled, client.Do returns the context's error.
Under(c, answers) == IF c.cancelled THEN {a \in answers : a.neterr} ELSE answers

(***************************************************************************)
(* Hash Engine (hash.go).                                                  *)
(***************************************************************************)
\* strings.ToUpper(hex.EncodeToString(sha256(data))): the digests the tests
\* of the repository fix, and for any other bytes a tag applied to the
\* bytes hashed.
Sha256Hex(data) ==
    CASE data = <<>> ->
           <<"E3B0C44298FC1C149AFBF4C8996FB92427AE41E4649B934CA495991B7852B855">>
      [] data = <<"hello">> ->
           <<"2CF24DBA5FB0A30E26E83B2AC5B9E29E1B161E5C1FA7425E73043362938B9824">>
      [] data = <<"test installer content">> ->
           <<"19EB2AA2B331FDAA7935E86424A3AA04BAF374AD7DE0DDDB57D5F0F3B7030934">>
      [] OTHER -> <<"SHA256">> \o data

\* CalculateHashFromBytes (hash.go).
CalculateHashFromBytes(data) == Sha256Hex(data)

\* The digest executePostPublish writes in dry-run: 64 zeros.
PlaceholderHash == <<"0000000000000000000000000000000000000000000000000000000000000000">>

\* CalculateInstallerHash on the answer a of its single GET.
CalculateInstallerHash(a) ==
    IF a.neterr
    THEN [hash |-> <<>>, err |-> <<"failed to download installer", "transport">>]
    ELSE IF a.status # 200
    THEN [hash |-> <<>>, err |-> <<"download failed with status", ToString(a.status)>>]
    ELSE IF a.readerr
    THEN [hash |-> <<>>, err |-> <<"failed to calculate hash", "read">>]
    ELSE [hash |-> Sha256Hex(a.content), err |-> Nil]

(***************************************************************************)
(* Manifest Compiler and Document Serializer (manifest.go).                *)
(***************************************************************************)
ManifestVersion == "1.6.0"

NoManifests == [set |-> FALSE]

S_manifests == <<"manifests">>

\* A loop over the locales without its break: the last en-US entry wins;
\* C30 does not hold of it.
FirstEnUS_Last(locales) ==
    IF \E k \in 1..Len(locales) : locales[k].Locale = "en-US"
    THEN locales[CHOOSE k \in 1..Len(locales) :
                    /\ locales[k].Locale = "en-US"
                    /\ \A j \in (k+1)..Len(locales) : locales[j].Locale # "en-US"].Description
    ELSE ""

\* The loop over cfg.Locales: the description of the first en-US entry.
FirstEnUS(locales) ==
    IF \E k \in 1..Len(locales) : locales[k].Locale = "en-US"
    THEN locales[CHOOSE k \in 1..Len(locales) :
                    /\ locales[k].Locale = "en-US"
                    /\ \A j \in 1..(k-1) : locales[j].Locale # "en-US"].Description
    ELSE ""

\* A version document that does not take the version passed in; C14 does
\* not hold of it.
VersionManifest_Unversioned(c, v) ==
    [PackageIdentifier |-> c.PackageID,
     PackageVersion |-> <<>>,
     DefaultLocale |-> "en-US",
     ManifestType |-> "version",
     ManifestVersion |-> ManifestVersion]

\* The three documents GenerateManifests builds.
VersionManifest(c, v) ==
    [PackageIdentifier |-> c.PackageID,
     PackageVersion |-> v,
     DefaultLocale |-> "en-US",
     ManifestType |-> "version",
     ManifestVersion |-> ManifestVersion]

InstallerManifest(c, v, insts) ==
    [PackageIdentifier |-> c.PackageID,
     PackageVersion |-> v,
     Installers |-> insts,
     ManifestType |-> "installer",
     ManifestVersion |-> ManifestVersion]

LocaleManifest(c, v) ==
    [PackageIdentifier |-> c.PackageID,
     PackageVersion |-> v,
     PackageLocale |-> "en-US",
     Publisher |-> c.Metadata.Publisher,
     PackageName |-> c.Metadata.Name,
     License |-> c.Metadata.License,
     ShortDescription |-> c.Metadata.ShortDescription,
     Description |-> FirstEnUS(c.Locales),
     ManifestType |-> "defaultLocale",
     ManifestVersion |-> ManifestVersion]

\* fmt.Sprintf("manifests/%s/%s/%s", strings.ToLower(publisher[:1]), ...).
ManifestPath(publisher, c, v) ==
    S_manifests \o <<"/">> \o ToLower(SubSeq(publisher, 1, 1)) \o <<"/">>
                \o c.PackageID \o <<"/">> \o v

\* GenerateManifests: [panic, err, set].  publisher[:1] on an empty
\* publisher is a slice out of range: a run-time panic.
GenerateManifests(c, v, insts) ==
    LET parts == SplitN2(c.PackageID, ".")
    IN  IF Len(parts) # 2
        THEN [panic |-> FALSE,
              err |-> <<"invalid package ID format">> \o c.PackageID,
              set |-> NoManifests]
        ELSE IF Len(parts[1]) < 1
        THEN [panic |-> TRUE, err |-> Nil, set |-> NoManifests]
        ELSE [panic |-> FALSE, err |-> Nil,
              set |-> [set |-> TRUE,
                       Version |-> VersionManifest(c, v),
                       Installer |-> InstallerManifest(c, v, insts),
                       Locale |-> LocaleManifest(c, v),
                       Path |-> ManifestPath(parts[1], c, v)]]

YAMLHeader == "# Created using Relicta"

addYAMLHeader(content) == <<YAMLHeader>> \o content

\* yaml.Marshal of a manifest struct, kept symbolic: the document itself.
toYAML(doc) == <<doc>>

S_yaml == <<".yaml">>
S_installer_yaml == <<".installer">> \o S_yaml
S_locale_yaml == <<".locale.", "en-US">> \o S_yaml

VersionFile(m) == m.Path \o <<"/">> \o m.Version.PackageIdentifier \o S_yaml
InstallerFile(m) == m.Path \o <<"/">> \o m.Installer.PackageIdentifier \o S_installer_yaml
\* A locale file named without its locale tag; C16 does not hold of it.
LocaleFile_Untagged(m) == m.Path \o <<"/">> \o m.Locale.PackageIdentifier \o S_yaml

LocaleFile(m) == m.Path \o <<"/">> \o m.Locale.PackageIdentifier \o S_locale_yaml

\* ManifestSet.GetFiles: the map from path to content.
GetFiles(m) ==
    [p \in {VersionFile(m), InstallerFile(m), LocaleFile(m)} |->
        IF p = VersionFile(m) THEN addYAMLHeader(toYAML(m.Version))
        ELSE IF p = InstallerFile(m) THEN addYAMLHeader(toYAML(m.Installer))
        ELSE addYAMLHeader(toYAML(m.Locale))]

(***************************************************************************)
(* Repository Client (github.go): the pure part of each REST call.         *)
(***************************************************************************)
wingetPkgsOwner == <<"microsoft">>

\* A client that forgets the fork owner it is constructed with; C17 does
\* not hold of it.
NewGitHubClient_Ownerless(token, forkOwner) == [token |-> token, forkOwner |-> <<>>]

NewGitHubClient(token, forkOwner) == [token |-> token, forkOwner |-> forkOwner]

\* doRequest on the answer a: the error, and the decoded body.
doRequest(a) ==
    IF a.neterr THEN [err |-> <<"transport">>, body |-> BadBody]
    ELSE IF a.status >= 400
    THEN [err |-> <<"API error", ToString(a.status)>>, body |-> BadBody]
    ELSE IF ~a.body.valid
    THEN [err |-> <<"failed to decode response">>, body |-> BadBody]
    ELSE [err |-> Nil, body |-> a.body]

getCurrentUser(a) == [val |-> doRequest(a).body.login, err |-> doRequest(a).err]

forkExists(a) ==
    IF a.neterr THEN [val |-> FALSE, err |-> <<"transport">>]
    ELSE [val |-> (a.status = 200), err |-> Nil]

\* A fork creation that accepts 202 alone; C18 does not hold of it.
createFork_AcceptedOnly(a) ==
    IF a.neterr THEN <<"transport">>
    ELSE IF a.status # 202 THEN <<"failed to create fork", "body">>
    ELSE Nil

createFork(a) ==
    IF a.neterr THEN <<"transport">>
    ELSE IF a.status # 202 /\ a.status # 200 THEN <<"failed to create fork", "body">>
    ELSE Nil

getBranchSHA(a) == [val |-> doRequest(a).body.sha, err |-> doRequest(a).err]

\* A branch creation that takes any 2xx status for success; C29 does not
\* hold of it.
createBranch_Any2xx(a) ==
    IF a.neterr THEN <<"transport">>
    ELSE IF ~Is2xx(a.status) THEN <<"failed to create branch", "body">>
    ELSE Nil

createBranch(a) ==
    IF a.neterr THEN <<"transport">>
    ELSE IF a.status # 201 THEN <<"failed to create branch", "body">>
    ELSE Nil

\* One iteration of commitFiles' loop, for the file at path.
commitFile(a) ==
    IF a.neterr THEN <<"transport">>
    ELSE IF a.status # 201 /\ a.status # 200
    THEN <<"failed to create file", ToString(a.status)>>
    ELSE Nil

createPullRequest(a) == [val |-> doRequest(a).body.html_url, err |-> doRequest(a).err]

\* base64.StdEncoding.EncodeToString, kept symbolic: a tag applied to the
\* text encoded.
Base64(content) == <<"base64">> \o content

S_winget == <<"winget/">>

\* A branch name that keeps the identifier's separators; C28 does not hold
\* of it.
BranchName_Dotted(m) ==
    S_winget \o m.Version.PackageIdentifier \o <<"/">> \o m.Version.PackageVersion

BranchName(m) ==
    S_winget \o ReplaceAll(m.Version.PackageIdentifier, <<".">>, <<"-">>)
             \o <<"/">> \o m.Version.PackageVersion

\* What a REST call is aimed at; the fields a call does not use are empty.
Target == [owner |-> <<>>, branch |-> <<>>, path |-> <<>>, sha |-> <<>>,
           title |-> <<>>, base |-> <<>>, content |-> <<>>, head |-> <<>>]

AcceptGitHubJSON == "application/vnd.github+json"
GitHubAPIVersion == "2022-11-28"

\* A request sent without the API version pin; C27 does not hold of it.
Request_Unpinned(call, op, method, t, token, ok) ==
    [call |-> call, op |-> op, method |-> method, owner |-> t.owner, branch |-> t.branch,
     path |-> t.path, sha |-> t.sha, title |-> t.title, base |-> t.base,
     content |-> t.content, head |-> t.head,
     auth |-> <<"Bearer ">> \o token, accept |-> AcceptGitHubJSON,
     apiVersion |-> "", ok |-> ok]

\* The request doRequestRaw sends: the client method it is sent from, the
\* REST call, its target (owner is the owner of the repository in the
\* URL), and the three headers; ok is how the caller judged the answer.
Request(call, op, method, t, token, ok) ==
    [call |-> call, op |-> op, method |-> method, owner |-> t.owner, branch |-> t.branch,
     path |-> t.path, sha |-> t.sha, title |-> t.title, base |-> t.base,
     content |-> t.content, head |-> t.head,
     auth |-> <<"Bearer ">> \o token, accept |-> AcceptGitHubJSON,
     apiVersion |-> GitHubAPIVersion, ok |-> ok]

(***************************************************************************)
(* The results Execute returns (plugin.ExecuteResponse).                   *)
(***************************************************************************)
NoResult == [returned |-> FALSE, Success |-> FALSE,
             Message |-> [text |-> "", index |-> 0, id |-> <<>>, version |-> <<>>,
                          err |-> Nil, url |-> <<>>, hook |-> ""]]

Response(success, text, index, id, v, err, url, hook) ==
    [returned |-> TRUE, Success |-> success,
     Message |-> [text |-> text, index |-> index, id |-> id, version |-> v,
                  err |-> err, url |-> url, hook |-> hook]]

MsgNotHandled(hook) ==
    Response(TRUE, "Hook %s not handled by winget plugin", 0, <<>>, <<>>, Nil, <<>>, hook)
MsgHashFailed(i, err) ==
    Response(FALSE, "Failed to calculate hash for installer %d: %v", i, <<>>, <<>>, err, <<>>, "")
MsgManifestsFailed(err) ==
    Response(FALSE, "Failed to generate manifests: %v", 0, <<>>, <<>>, err, <<>>, "")
\* A dry-run message that drops the release version; C4 does not hold of it.
MsgDryRun_Unversioned(id, v) ==
    Response(TRUE, "[DRY-RUN] Would create PR for %s version %s", 0, id, <<>>, Nil, <<>>, "")
MsgDryRun(id, v) ==
    Response(TRUE, "[DRY-RUN] Would create PR for %s version %s", 0, id, v, Nil, <<>>, "")
MsgEnsureForkFailed(err) ==
    Response(FALSE, "Failed to ensure fork: %v", 0, <<>>, <<>>, err, <<>>, "")
MsgCreatePRFailed(err) ==
    Response(FALSE, "Failed to create PR: %v", 0, <<>>, <<>>, err, <<>>, "")
MsgCreated(id, v, url) ==
    Response(TRUE, "Created PR for %s version %s: %s", 0, id, v, Nil, url, "")

(***************************************************************************)
(* State.                                                                  *)
(***************************************************************************)
VARIABLES
    pc,          \* where the run stands in Execute / executePostPublish
    req,         \* the ExecuteRequest being served: hook, version, dry-run flags
    cfg,         \* its configuration as parsed, DryRun made effective
    version,     \* releaseCtx.Version
    idx,         \* the installer loop's index i
    installers,  \* the Installer records built so far
    manifests,   \* the ManifestSet GenerateManifests returned
    ghClient,    \* the GitHubClient of the run
    user,        \* EnsureFork's local user
    efRet,       \* what EnsureFork returned
    prOwner,     \* CreatePR's local forkOwner
    baseSHA,     \* CreatePR's local baseSHA
    branchName,  \* CreatePR's local branchName
    pending,     \* the paths commitFiles' loop has not yet visited
    cpRet,       \* what CreatePR returned
    result,      \* the ExecuteResponse returned to the host
    downloads,   \* history: the installer downloads issued
    reqs,        \* history: the REST requests issued
    resp,        \* the answer to the last network round trip
    validation,  \* the ValidateResponse of the last Validate call
    ctx,         \* the caller's context, and what had been issued when it was cancelled
    origin,      \* what the server behind an installer URL presents
    hashCall,    \* one CalculateInstallerHash call: requests made, what it returned
    render,      \* one renderTemplate call: its arguments and what it returned
    runs,        \* the CreatePR calls of publish runs that share one fork
    fork         \* what that fork holds: its branches and the files committed to them

vars == <<pc, req, cfg, version, idx, installers, manifests, ghClient, user, efRet,
          prOwner, baseSHA, branchName, pending, cpRet, result, downloads, reqs, resp,
          validation, ctx, origin, hashCall, render, runs, fork>>

hashVars == <<idx, installers, downloads>>
forkVars == <<user, efRet>>
prVars == <<prOwner, baseSHA, branchName, pending, cpRet>>
runVars == <<req, cfg, version, validation, ctx, origin, hashCall, render, runs, fork>>

NoReturn == [returned |-> FALSE, val |-> <<>>, err |-> Nil]

NoValidation == [returned |-> FALSE, Valid |-> FALSE, Errors |-> <<>>]

\* context.Background(): not cancelled.
LiveContext == [cancelled |-> FALSE, reqs |-> 0, downloads |-> 0]

\* No installer URL is being served, no hash call and no template call is
\* under way.
NoOrigin == [redirects |-> 0, status |-> 0, readerr |-> FALSE, content |-> <<>>]
NoHashCall == [state |-> "none", via |-> 0, hash |-> <<>>, err |-> <<>>]
NoRender == [state |-> "none", tmpl |-> <<>>, data |-> <<>>, order |-> <<>>,
             result |-> <<>>]
\* No run is calling CreatePR, and the fork is as it was forked.
NoRuns == <<>>
NoFork == [refs |-> {}, files |-> {}, pulls |-> {}]

ZeroConfig ==
    [PackageID |-> <<>>, GitHubToken |-> <<>>, Installers |-> <<>>,
     Metadata |-> DefaultMetadata, Locales |-> <<>>,
     PullRequest |-> [ForkOwner |-> <<>>, BaseBranch |-> <<>>, Title |-> <<>>],
     DryRun |-> FALSE]

Init ==
    /\ pc = "Idle"
    /\ req = [Hook |-> "", Version |-> <<>>, DryRun |-> FALSE, ConfigDryRun |-> FALSE]
    /\ cfg = ZeroConfig
    /\ version = <<>>
    /\ idx = 0
    /\ installers = <<>>
    /\ manifests = NoManifests
    /\ ghClient = NewGitHubClient(<<>>, <<>>)
    /\ user = <<>>
    /\ efRet = NoReturn
    /\ prOwner = <<>>
    /\ baseSHA = <<>>
    /\ branchName = <<>>
    /\ pending = {}
    /\ cpRet = NoReturn
    /\ result = NoResult
    /\ downloads = <<>>
    /\ reqs = <<>>
    /\ resp = NoAnswer
    /\ validation = NoValidation
    /\ ctx = LiveContext
    /\ origin = NoOrigin
    /\ hashCall = NoHashCall
    /\ render = NoRender
    /\ runs = NoRuns
    /\ fork = NoFork


(***************************************************************************)
(* Execute and executePostPublish (plugin.go).                             *)
(***************************************************************************)
\* A dry-run flag that ignores the request's flag; C3 does not hold of it.
EffectiveDryRun_ConfigOnly(configured, requested) == configured

\* cfg.DryRun = cfg.DryRun || req.DryRun
EffectiveDryRun(configured, requested) == configured \/ requested

Execute ==
    /\ pc = "Idle"
    /\ \E r \in Requests :
         /\ req' = [Hook |-> r.Hook, Version |-> r.Version, DryRun |-> r.DryRun,
                     ConfigDryRun |-> r.Config.DryRun]
         /\ cfg' = [r.Config EXCEPT
                       !.DryRun = EffectiveDryRun(r.Config.DryRun, r.DryRun)]
         /\ IF r.Hook = HookPostPublish
            THEN /\ pc' = "HashingInstallers"
                 /\ version' = r.Version
                 /\ UNCHANGED result
            ELSE /\ pc' = "Done"
                 /\ result' = MsgNotHandled(r.Hook)
                 /\ UNCHANGED version
    /\ UNCHANGED <<hashVars, manifests, ghClient, forkVars, prVars, reqs, resp, validation,
                   ctx, origin, hashCall, render, runs, fork>>

Installer(ic, url, hash) ==
    [Architecture |-> ic.Architecture, InstallerType |-> ic.Type,
     InstallerURL |-> url, InstallerSha256 |-> hash, Scope |-> ic.Scope,
     InstallerSwitches |-> ic.Switches, ProductCode |-> ic.ProductCode]

\* An installer URL used as configured, its template not rendered; C13
\* does not hold of it.
InstallerURL_Unrendered(ic, v) == ic.URL

InstallerURL(ic, v) == renderTemplate(ic.URL, [k \in {KeyVersion} |-> v], <<KeyVersion>>)

\* An installer loop that skips an installer whose hashing failed and goes
\* on with the next; C5 does not hold of it.
HashInstaller_SkipFailed ==
    /\ pc = "HashingInstallers"
    /\ idx < Len(cfg.Installers)
    /\ LET ic == cfg.Installers[idx + 1]
           url == InstallerURL(ic, version)
       IN  IF cfg.DryRun
           THEN /\ installers' = Append(installers, Installer(ic, url, PlaceholderHash))
                /\ UNCHANGED <<downloads, resp>>
           ELSE \E a \in Under(ctx, DownloadAnswers(url)) :
                  LET h == CalculateInstallerHash(a)
                  IN  /\ downloads' = Append(downloads,
                                             [index |-> idx, url |-> url, ok |-> h.err = Nil])
                      /\ resp' = a
                      /\ installers' = IF h.err # Nil THEN installers
                                       ELSE Append(installers, Installer(ic, url, h.hash))
    /\ idx' = idx + 1
    /\ UNCHANGED <<pc, result, runVars, manifests, ghClient, forkVars, prVars, reqs>>

\* One iteration of the installer loop.
HashInstaller ==
    /\ pc = "HashingInstallers"
    /\ idx < Len(cfg.Installers)
    /\ LET ic == cfg.Installers[idx + 1]
           url == InstallerURL(ic, version)
       IN  IF cfg.DryRun
           THEN /\ installers' = Append(installers, Installer(ic, url, PlaceholderHash))
                /\ idx' = idx + 1
                /\ UNCHANGED <<pc, result, downloads, resp>>
           ELSE \E a \in Under(ctx, DownloadAnswers(url)) :
                  LET h == CalculateInstallerHash(a)
                  IN  /\ downloads' = Append(downloads,
                                             [index |-> idx, url |-> url, ok |-> h.err = Nil])
                      /\ resp' = a
                      /\ IF h.err # Nil
                         THEN /\ pc' = "Failed"
                              /\ result' = MsgHashFailed(idx, h.err)
                              /\ UNCHANGED <<idx, installers>>
                         ELSE /\ installers' = Append(installers, Installer(ic, url, h.hash))
                              /\ idx' = idx + 1
                              /\ UNCHANGED <<pc, result>>
    /\ UNCHANGED <<runVars, manifests, ghClient, forkVars, prVars, reqs>>

\* The loop is over: executePostPublish goes on to generate the manifests.
FinishHashing ==
    /\ pc = "HashingInstallers"
    /\ idx = Len(cfg.Installers)
    /\ pc' = "ComposingManifests"
    /\ UNCHANGED <<runVars, hashVars, manifests, ghClient, forkVars, prVars, result,
                   reqs, resp>>

\* GenerateManifests and the branch on cfg.DryRun that follows it.
ComposeManifests ==
    /\ pc = "ComposingManifests"
    /\ LET g == GenerateManifests(cfg, version, installers)
       IN  IF g.panic
           THEN /\ pc' = "Panicked"
                /\ UNCHANGED <<manifests, ghClient, result>>
           ELSE IF g.err # Nil
           THEN /\ pc' = "Failed"
                /\ result' = MsgManifestsFailed(g.err)
                /\ UNCHANGED <<manifests, ghClient>>
           ELSE /\ manifests' = g.set
                /\ UNCHANGED result
                /\ IF cfg.DryRun
                   THEN /\ pc' = "DryRunReporting"
                        /\ UNCHANGED ghClient
                   ELSE /\ pc' = "EnsureFork"
                        /\ ghClient' = NewGitHubClient(cfg.GitHubToken,
                                                       cfg.PullRequest.ForkOwner)
    /\ UNCHANGED <<runVars, hashVars, forkVars, prVars, reqs, resp>>

\* The dry-run branch: the manifests are logged and a success is returned.
DryRunReport ==
    /\ pc = "DryRunReporting"
    /\ pc' = "Done"
    /\ result' = MsgDryRun(cfg.PackageID, version)
    /\ UNCHANGED <<runVars, hashVars, manifests, ghClient, forkVars, prVars, reqs, resp>>

(***************************************************************************)
(* GitHubClient.EnsureFork, and executePostPublish's handling of what it   *)
(* returns.                                                                *)
(***************************************************************************)
\* A caller that goes on to CreatePR whatever EnsureFork returned; C6 does
\* not hold of it.
EnsureForkReturns_ErrorIgnored(val, err) ==
    /\ efRet' = [returned |-> TRUE, val |-> val, err |-> err]
    /\ pc' = "CreatePR"
    /\ UNCHANGED result

EnsureForkReturns(val, err) ==
    /\ efRet' = [returned |-> TRUE, val |-> val, err |-> err]
    /\ IF err # Nil
       THEN /\ pc' = "Failed"
            /\ result' = MsgEnsureForkFailed(err)
       ELSE /\ pc' = "CreatePR"
            /\ UNCHANGED result

EnsureFork_Configured ==
    /\ pc = "EnsureFork"
    /\ ghClient.forkOwner # <<>>
    /\ EnsureForkReturns(ghClient.forkOwner, Nil)
    /\ UNCHANGED <<runVars, hashVars, manifests, ghClient, user, prVars, reqs, resp>>

EnsureFork_GetCurrentUser ==
    /\ pc = "EnsureFork"
    /\ ghClient.forkOwner = <<>>
    /\ \E a \in Under(ctx, UserAnswers) :
         LET u == getCurrentUser(a)
         IN  /\ reqs' = Append(reqs, Request("EnsureFork", "getCurrentUser", "GET", Target,
                                             ghClient.token, u.err = Nil))
             /\ resp' = a
             /\ IF u.err # Nil
                THEN /\ EnsureForkReturns(<<>>, Wrap("failed to get current user", u.err))
                     /\ UNCHANGED user
                ELSE /\ user' = u.val
                     /\ pc' = "EnsureFork_forkExists"
                     /\ UNCHANGED <<efRet, result>>
    /\ UNCHANGED <<runVars, hashVars, manifests, ghClient, prVars>>

EnsureFork_ForkExists ==
    /\ pc = "EnsureFork_forkExists"
    /\ \E a \in Under(ctx, PlainAnswers) :
         LET e == forkExists(a)
         IN  /\ reqs' = Append(reqs, Request("EnsureFork", "forkExists", "GET",
                                             [Target EXCEPT !.owner = user],
                                             ghClient.token, e.err = Nil))
             /\ resp' = a
             /\ IF e.err # Nil
                THEN EnsureForkReturns(<<>>, Wrap("failed to check fork", e.err))
                ELSE IF e.val
                THEN EnsureForkReturns(user, Nil)
                ELSE /\ pc' = "EnsureFork_createFork"
                     /\ UNCHANGED <<efRet, result>>
    /\ UNCHANGED <<runVars, hashVars, manifests, ghClient, user, prVars>>

\* createFork; when it succeeded the fork is given time to settle.
EnsureFork_CreateFork ==
    /\ pc = "EnsureFork_createFork"
    /\ \E a \in Under(ctx, PlainAnswers) :
         LET err == createFork(a)
         IN  /\ reqs' = Append(reqs, Request("EnsureFork", "createFork", "POST",
                                             [Target EXCEPT !.owner = wingetPkgsOwner],
                                             ghClient.token, err = Nil))
             /\ resp' = a
             /\ IF err # Nil
                THEN EnsureForkReturns(<<>>, Wrap("failed to create fork", err))
                ELSE /\ pc' = "EnsureFork_settling"
                     /\ UNCHANGED <<efRet, result>>
    /\ UNCHANGED <<runVars, hashVars, manifests, ghClient, user, prVars>>

\* time.Sleep(5 * time.Second) is over: the resolved user is returned.
EnsureFork_Settled ==
    /\ pc = "EnsureFork_settling"
    /\ EnsureForkReturns(user, Nil)
    /\ UNCHANGED <<runVars, hashVars, manifests, ghClient, user, prVars, reqs, resp>>

(***************************************************************************)
(* GitHubClient.CreatePR, and executePostPublish's handling of what it     *)
(* returns.                                                                *)
(***************************************************************************)
CreatePRReturns(val, err) ==
    /\ cpRet' = [returned |-> TRUE, val |-> val, err |-> err]
    /\ IF err # Nil
       THEN /\ pc' = "Failed"
            /\ result' = MsgCreatePRFailed(err)
       ELSE /\ pc' = "Done"
            /\ result' = MsgCreated(cfg.PackageID, version, val)

CreatePR_Configured ==
    /\ pc = "CreatePR"
    /\ ghClient.forkOwner # <<>>
    /\ prOwner' = ghClient.forkOwner
    /\ pc' = "CreatePR_getBranchSHA"
    /\ UNCHANGED <<runVars, hashVars, manifests, ghClient, forkVars, baseSHA, branchName,
                   pending, cpRet, result, reqs, resp>>

CreatePR_GetCurrentUser ==
    /\ pc = "CreatePR"
    /\ ghClient.forkOwner = <<>>
    /\ \E a \in Under(ctx, UserAnswers) :
         LET u == getCurrentUser(a)
         IN  /\ reqs' = Append(reqs, Request("CreatePR", "getCurrentUser", "GET", Target,
                                             ghClient.token, u.err = Nil))
             /\ resp' = a
             /\ IF u.err # Nil
                THEN /\ CreatePRReturns(<<>>, u.err)
                     /\ UNCHANGED prOwner
                ELSE /\ prOwner' = u.val
                     /\ pc' = "CreatePR_getBranchSHA"
                     /\ UNCHANGED <<cpRet, result>>
    /\ UNCHANGED <<runVars, hashVars, manifests, ghClient, forkVars, baseSHA, branchName,
                   pending>>

CreatePR_GetBranchSHA ==
    /\ pc = "CreatePR_getBranchSHA"
    /\ \E a \in Under(ctx, RefAnswers) :
         LET b == getBranchSHA(a)
         IN  /\ reqs' = Append(reqs, Request("CreatePR", "getBranchSHA", "GET",
                                             [Target EXCEPT !.owner = wingetPkgsOwner,
                                                            !.branch = cfg.PullRequest.BaseBranch],
                                             ghClient.token, b.err = Nil))
             /\ resp' = a
             /\ IF b.err # Nil
                THEN /\ CreatePRReturns(<<>>, Wrap("failed to get base branch SHA", b.err))
                     /\ UNCHANGED baseSHA
                ELSE /\ baseSHA' = b.val
                     /\ pc' = "CreatePR_createBranch"
                     /\ UNCHANGED <<cpRet, result>>
    /\ UNCHANGED <<runVars, hashVars, manifests, ghClient, forkVars, prOwner, branchName,
                   pending>>

\* A branch creation that is requested a second time after its first
\* failure; C10 does not hold of it.
CreatePR_CreateBranch_Retried ==
    /\ pc = "CreatePR_createBranch"
    /\ branchName' = BranchName(manifests)
    /\ \E a \in Under(ctx, PlainAnswers) :
         LET err == createBranch(a)
             first == \A k \in 1..Len(reqs) : reqs[k].op # "createBranch"
         IN  /\ reqs' = Append(reqs, Request("CreatePR", "createBranch", "POST",
                                             [Target EXCEPT !.owner = prOwner,
                                                            !.branch = BranchName(manifests),
                                                            !.sha = baseSHA],
                                             ghClient.token, err = Nil))
             /\ resp' = a
             /\ IF err # Nil /\ first
                THEN UNCHANGED <<pc, pending, cpRet, result>>
                ELSE IF err # Nil
                THEN /\ CreatePRReturns(<<>>, Wrap("failed to create branch", err))
                     /\ UNCHANGED pending
                ELSE /\ pending' = DOMAIN GetFiles(manifests)
                     /\ pc' = "CreatePR_commitFiles"
                     /\ UNCHANGED <<cpRet, result>>
    /\ UNCHANGED <<runVars, hashVars, manifests, ghClient, forkVars, prOwner, baseSHA>>

\* createBranch and, when it succeeded, manifests.GetFiles().
CreatePR_CreateBranch ==
    /\ pc = "CreatePR_createBranch"
    /\ branchName' = BranchName(manifests)
    /\ \E a \in Under(ctx, PlainAnswers) :
         LET err == createBranch(a)
         IN  /\ reqs' = Append(reqs, Request("CreatePR", "createBranch", "POST",
                                             [Target EXCEPT !.owner = prOwner,
                                                            !.branch = BranchName(manifests),
                                                            !.sha = baseSHA],
                                             ghClient.token, err = Nil))
             /\ resp' = a
             /\ IF err # Nil
                THEN /\ CreatePRReturns(<<>>, Wrap("failed to create branch", err))
                     /\ UNCHANGED pending
                ELSE /\ pending' = DOMAIN GetFiles(manifests)
                     /\ pc' = "CreatePR_commitFiles"
                     /\ UNCHANGED <<cpRet, result>>
    /\ UNCHANGED <<runVars, hashVars, manifests, ghClient, forkVars, prOwner, baseSHA>>

\* A commit loop that stops after its first successful commit and lets the
\* pull request be opened; C7 does not hold of it.
CreatePR_CommitFile_FirstOnly ==
    /\ pc = "CreatePR_commitFiles"
    /\ \E path \in pending : \E a \in Under(ctx, PlainAnswers) :
         LET err == commitFile(a)
         IN  /\ reqs' = Append(reqs, Request("CreatePR", "commitFile", "PUT",
                                             [Target EXCEPT !.owner = prOwner,
                                                            !.branch = branchName,
                                                            !.path = path,
                                                            !.content = Base64(
                                                               GetFiles(manifests)[path])],
                                             ghClient.token, err = Nil))
             /\ resp' = a
             /\ IF err # Nil
                THEN /\ CreatePRReturns(<<>>, Wrap("failed to commit files", err))
                     /\ UNCHANGED pending
                ELSE /\ pending' = pending \ {path}
                     /\ pc' = "CreatePR_createPullRequest"
                     /\ UNCHANGED <<cpRet, result>>
    /\ UNCHANGED <<runVars, hashVars, manifests, ghClient, forkVars, prOwner, baseSHA,
                   branchName>>

\* A commit loop that goes on with the remaining files after a commit
\* failed; C9 does not hold of it.
CreatePR_CommitFile_Continued ==
    /\ pc = "CreatePR_commitFiles"
    /\ \E path \in pending : \E a \in Under(ctx, PlainAnswers) :
         LET err == commitFile(a)
         IN  /\ reqs' = Append(reqs, Request("CreatePR", "commitFile", "PUT",
                                             [Target EXCEPT !.owner = prOwner,
                                                            !.branch = branchName,
                                                            !.path = path,
                                                            !.content = Base64(
                                                               GetFiles(manifests)[path])],
                                             ghClient.token, err = Nil))
             /\ resp' = a
             /\ pending' = pending \ {path}
             /\ pc' = IF pending \ {path} = {}
                      THEN "CreatePR_createPullRequest"
                      ELSE "CreatePR_commitFiles"
             /\ UNCHANGED <<cpRet, result>>
    /\ UNCHANGED <<runVars, hashVars, manifests, ghClient, forkVars, prOwner, baseSHA,
                   branchName>>

\* A commit loop that puts its files on the base branch of the fork rather
\* than on the branch just created; C34 does not hold of it.
CreatePR_CommitFile_ToBase ==
    /\ pc = "CreatePR_commitFiles"
    /\ \E path \in pending : \E a \in Under(ctx, PlainAnswers) :
         LET err == commitFile(a)
         IN  /\ reqs' = Append(reqs, Request("CreatePR", "commitFile", "PUT",
                                             [Target EXCEPT !.owner = prOwner,
                                                            !.branch = cfg.PullRequest.BaseBranch,
                                                            !.path = path,
                                                            !.content = Base64(
                                                               GetFiles(manifests)[path])],
                                             ghClient.token, err = Nil))
             /\ resp' = a
             /\ IF err # Nil
                THEN /\ CreatePRReturns(<<>>, Wrap("failed to commit files", err))
                     /\ UNCHANGED pending
                ELSE /\ pending' = pending \ {path}
                     /\ pc' = IF pending \ {path} = {}
                              THEN "CreatePR_createPullRequest"
                              ELSE "CreatePR_commitFiles"
                     /\ UNCHANGED <<cpRet, result>>
    /\ UNCHANGED <<runVars, hashVars, manifests, ghClient, forkVars, prOwner, baseSHA,
                   branchName>>

\* One iteration of commitFiles' loop over the map: any file not yet
\* visited may come next.
CreatePR_CommitFile ==
    /\ pc = "CreatePR_commitFiles"
    /\ \E path \in pending : \E a \in Under(ctx, PlainAnswers) :
         LET err == commitFile(a)
         IN  /\ reqs' = Append(reqs, Request("CreatePR", "commitFile", "PUT",
                                             [Target EXCEPT !.owner = prOwner,
                                                            !.branch = branchName,
                                                            !.path = path,
                                                            !.content = Base64(
                                                               GetFiles(manifests)[path])],
                                             ghClient.token, err = Nil))
             /\ resp' = a
             /\ IF err # Nil
                THEN /\ CreatePRReturns(<<>>, Wrap("failed to commit files", err))
                     /\ UNCHANGED pending
                ELSE /\ pending' = pending \ {path}
                     /\ pc' = IF pending \ {path} = {}
                              THEN "CreatePR_createPullRequest"
                              ELSE "CreatePR_commitFiles"
                     /\ UNCHANGED <<cpRet, result>>
    /\ UNCHANGED <<runVars, hashVars, manifests, ghClient, forkVars, prOwner, baseSHA,
                   branchName>>

PRTitle(tmpl, m, order) ==
    renderTemplate(tmpl,
                   [k \in {KeyPackageId, KeyVersion} |->
                       IF k = KeyPackageId THEN m.Version.PackageIdentifier
                       ELSE m.Version.PackageVersion],
                   order)

CreatePR_CreatePullRequest ==
    /\ pc = "CreatePR_createPullRequest"
    /\ \E order \in Orders({KeyPackageId, KeyVersion}) : \E a \in Under(ctx, PRAnswers) :
         LET r == createPullRequest(a)
         IN  /\ reqs' = Append(reqs, Request("CreatePR", "createPullRequest", "POST",
                                             [Target EXCEPT
                                                !.owner = wingetPkgsOwner,
                                                !.head = prOwner \o <<":">> \o branchName,
                                                !.base = cfg.PullRequest.BaseBranch,
                                                !.title = PRTitle(cfg.PullRequest.Title,
                                                                  manifests, order)],
                                             ghClient.token, r.err = Nil))
             /\ resp' = a
             /\ IF r.err # Nil
                THEN CreatePRReturns(<<>>, Wrap("failed to create PR", r.err))
                ELSE CreatePRReturns(r.val, Nil)
    /\ UNCHANGED <<runVars, hashVars, manifests, ghClient, forkVars, prOwner, baseSHA,
                   branchName, pending>>

(***************************************************************************)
(* The specification.                                                      *)
(***************************************************************************)
Next ==
    \/ Execute
    \/ HashInstaller
    \/ FinishHashing
    \/ ComposeManifests
    \/ DryRunReport
    \/ EnsureFork_Configured
    \/ EnsureFork_GetCurrentUser
    \/ EnsureFork_ForkExists
    \/ EnsureFork_CreateFork
    \/ EnsureFork_Settled
    \/ CreatePR_Configured
    \/ CreatePR_GetCurrentUser
    \/ CreatePR_GetBranchSHA
    \/ CreatePR_CreateBranch
    \/ CreatePR_CommitFile
    \/ CreatePR_CreatePullRequest

Spec == Init /\ [][Next]_vars

(***************************************************************************)
(* The publish run under a caller that may cancel its context.  Nothing in *)
(* Execute reads the context: it is handed to the requests, so the round   *)
(* trips are what a cancellation reaches.  time.Sleep does not read it.    *)
(***************************************************************************)
\* The caller cancels the context of a publish run that has not returned.
Cancel ==
    /\ ~ctx.cancelled
    /\ req.Hook = HookPostPublish
    /\ pc \notin {"Idle", "Done", "Failed", "Panicked"}
    /\ ctx' = [cancelled |-> TRUE, reqs |-> Len(reqs), downloads |-> Len(downloads)]
    /\ UNCHANGED <<pc, req, cfg, version, hashVars, manifests, ghClient, forkVars, prVars,
                   result, reqs, resp, validation, origin, hashCall, render, runs, fork>>

NextCancel == Next \/ Cancel

SpecCancel == Init /\ [][NextCancel]_vars

(***************************************************************************)
(* Validate (plugin.go).  The plugin keeps no state between calls, so the  *)
(* validation entry point is a specification of its own: the host hands it *)
(* any raw configuration.                                                  *)
(***************************************************************************)
MaxIdLen == 4
MaxShortDescription == 256

IdChars == {".", "A", "b"}

\* Every identifier of at most MaxIdLen characters, the empty one included.
ValidateIDs == UNION { [1..n -> IdChars] : n \in 0..MaxIdLen }

\* Installer entries with a missing URL or an architecture outside the list.
BadInstallerConfigs ==
    { [URL |-> <<>>, Architecture |-> "x86", Type |-> "exe", Scope |-> "",
       ProductCode |-> "", Switches |-> <<>>],
      [URL |-> <<"h", "/", "b">>, Architecture |-> "mips", Type |-> "exe", Scope |-> "",
       ProductCode |-> "", Switches |-> <<>>] }

ValidateInstallerLists ==
    UNION { [1..n -> InstallerConfigs \cup BadInstallerConfigs] : n \in 0..MaxInstallers }

LongDescription == "A description of 257 characters"

\* 200 characters of two bytes each in UTF-8: len() of it is 400.
MultiByteDescription == "A description of 200 two-byte characters"

ValidateMetadatas ==
    { DefaultMetadata,
      [Publisher |-> "", Name |-> "", ShortDescription |-> "", License |-> ""],
      [DefaultMetadata EXCEPT !.ShortDescription = LongDescription],
      [DefaultMetadata EXCEPT !.ShortDescription = MultiByteDescription] }

ValidateConfigs ==
    [PackageID : ValidateIDs, GitHubToken : Tokens \cup {<<>>},
     Installers : ValidateInstallerLists, Metadata : ValidateMetadatas,
     Locales : LocaleLists,
     PullRequest : {[ForkOwner |-> <<>>, BaseBranch |-> BaseBranchMaster,
                     Title |-> DefaultTitle]},
     DryRun : {FALSE}]

\* len(s) of the description texts the model uses.
ByteLen(s) ==
    CASE s = "" -> 0
      [] s = LongDescription -> 257
      [] s = MultiByteDescription -> 400
      [] OTHER -> 6

isValidArchitecture(arch) == arch \in {"x86", "x64", "arm", "arm64"}

\* vb.AddError(field, ...) when the condition holds.
ErrorIf(cond, field) == IF cond THEN <<field>> ELSE <<>>

\* The errors the loop over cfg.Installers adds, from entry i (0-based) on.
RECURSIVE InstallerErrors(_, _)
InstallerErrors(insts, i) ==
    IF i >= Len(insts) THEN <<>>
    ELSE ErrorIf(insts[i + 1].URL = <<>>, <<"installers[%d].url", i>>)
         \o ErrorIf(~isValidArchitecture(insts[i + 1].Architecture),
                    <<"installers[%d].architecture", i>>)
         \o InstallerErrors(insts, i + 1)

\* The error list Validate builds for the parsed configuration c.
ValidationErrors(c) ==
    ErrorIf(~isValidPackageID(c.PackageID), <<"package_id">>)
    \o ErrorIf(c.GitHubToken = <<>>, <<"github_token">>)
    \o ErrorIf(Len(c.Installers) = 0, <<"installers">>)
    \o InstallerErrors(c.Installers, 0)
    \o ErrorIf(c.Metadata.Publisher = "", <<"metadata.publisher">>)
    \o ErrorIf(c.Metadata.Name = "", <<"metadata.name">>)
    \o ErrorIf(c.Metadata.ShortDescription = ""
               \/ ByteLen(c.Metadata.ShortDescription) > MaxShortDescription,
               <<"metadata.short_description">>)
    \o ErrorIf(c.Metadata.License = "", <<"metadata.license">>)

\* The state in which the host is about to validate a configuration.
InitValidate ==
    /\ pc = "Idle"
    /\ req = [Hook |-> "", Version |-> <<>>, DryRun |-> FALSE, ConfigDryRun |-> FALSE]
    /\ cfg \in ValidateConfigs
    /\ version = <<>>
    /\ idx = 0
    /\ installers = <<>>
    /\ manifests = NoManifests
    /\ ghClient = NewGitHubClient(<<>>, <<>>)
    /\ user = <<>>
    /\ efRet = NoReturn
    /\ prOwner = <<>>
    /\ baseSHA = <<>>
    /\ branchName = <<>>
    /\ pending = {}
    /\ cpRet = NoReturn
    /\ result = NoResult
    /\ downloads = <<>>
    /\ reqs = <<>>
    /\ resp = NoAnswer
    /\ validation = NoValidation
    /\ ctx = LiveContext
    /\ origin = NoOrigin
    /\ hashCall = NoHashCall
    /\ render = NoRender
    /\ runs = NoRuns
    /\ fork = NoFork

\* One Validate call on the configuration cfg: nothing but the response is
\* produced.
Validate ==
    /\ pc = "Idle"
    /\ ~validation.returned
    /\ validation' = [returned |-> TRUE, Valid |-> ValidationErrors(cfg) = <<>>,
                      Errors |-> ValidationErrors(cfg)]
    /\ UNCHANGED <<pc, req, cfg, version, hashVars, manifests, ghClient, forkVars, prVars,
                   result, reqs, resp, ctx, origin, hashCall, render, runs, fork>>

NextValidate == Validate

SpecValidate == InitValidate /\ [][NextValidate]_vars

(***************************************************************************)
(* CalculateInstallerHash (hash.go), request by request.  The publish run  *)
(* above takes a download as one round trip that ends as client.Do ends;   *)
(* here client.Do is followed through the redirects the server answers     *)
(* with.  The function keeps no state, so it is a specification of its     *)
(* own: the server behind the URL is drawn in the initial state.           *)
(***************************************************************************)
MaxRedirects == 11
RedirectLimit == 10

HashContents == { <<>>, <<"hello">>, <<"test installer content">> }

\* The server behind the URL: it answers the first `redirects` requests of
\* a chain with a redirect and the next one with `status` and `content`;
\* readerr says that the body breaks off while it is read.
HashOrigins == [redirects : 0..MaxRedirects, status : Statuses, readerr : BOOLEAN,
                content : HashContents]

\* The CheckRedirect hook of the client; via counts the requests made so
\* far (len(via)).
CheckRedirect(via) == IF via >= RedirectLimit THEN <<"too many redirects">> ELSE Nil

RedirectAnswer == [neterr |-> FALSE, status |-> 302, readerr |-> FALSE, content |-> <<>>,
                   redirect |-> TRUE]

TransportFailure == [neterr |-> TRUE, status |-> 0, readerr |-> FALSE, content |-> <<>>,
                     redirect |-> FALSE]

FinalAnswer(o) == [neterr |-> FALSE, status |-> o.status, readerr |-> o.readerr,
                   content |-> o.content, redirect |-> FALSE]

HashReturns(h) ==
    hashCall' = [state |-> "returned", via |-> hashCall.via + 1, hash |-> h.hash,
                 err |-> h.err]

hashOnly == <<pc, req, cfg, version, hashVars, manifests, ghClient, forkVars, prVars,
              result, reqs, validation, ctx, origin, render, runs, fork>>

\* CalculateInstallerHash has been called and is about to send its request.
InitHash ==
    /\ pc = "Idle"
    /\ req = [Hook |-> "", Version |-> <<>>, DryRun |-> FALSE, ConfigDryRun |-> FALSE]
    /\ cfg = ZeroConfig
    /\ version = <<>>
    /\ idx = 0
    /\ installers = <<>>
    /\ manifests = NoManifests
    /\ ghClient = NewGitHubClient(<<>>, <<>>)
    /\ user = <<>>
    /\ efRet = NoReturn
    /\ prOwner = <<>>
    /\ baseSHA = <<>>
    /\ branchName = <<>>
    /\ pending = {}
    /\ cpRet = NoReturn
    /\ result = NoResult
    /\ downloads = <<>>
    /\ reqs = <<>>
    /\ resp = NoAnswer
    /\ validation = NoValidation
    /\ ctx = LiveContext
    /\ origin \in HashOrigins
    /\ hashCall = [state |-> "called", via |-> 0, hash |-> <<>>, err |-> <<>>]
    /\ render = NoRender
    /\ runs = NoRuns
    /\ fork = NoFork

\* A request of client.Do is answered with a redirect: CheckRedirect decides
\* whether the next request is sent or client.Do returns its error.
Hash_Redirected ==
    /\ hashCall.state = "called"
    /\ hashCall.via < origin.redirects
    /\ resp' = RedirectAnswer
    /\ LET e == CheckRedirect(hashCall.via + 1)
       IN  IF e # Nil
           THEN HashReturns([hash |-> <<>>, err |-> Wrap("failed to download installer", e)])
           ELSE hashCall' = [hashCall EXCEPT !.via = hashCall.via + 1]
    /\ UNCHANGED hashOnly

\* A request of client.Do is answered with the resource: status check, then
\* the body is hashed.
Hash_Answered ==
    /\ hashCall.state = "called"
    /\ hashCall.via = origin.redirects
    /\ resp' = FinalAnswer(origin)
    /\ HashReturns(CalculateInstallerHash(FinalAnswer(origin)))
    /\ UNCHANGED hashOnly

\* A request of client.Do fails in transport.
Hash_TransportFailed ==
    /\ hashCall.state = "called"
    /\ resp' = TransportFailure
    /\ HashReturns(CalculateInstallerHash(TransportFailure))
    /\ UNCHANGED hashOnly

NextHash == Hash_Redirected \/ Hash_Answered \/ Hash_TransportFailed

SpecHash == InitHash /\ [][NextHash]_vars

(***************************************************************************)
(* renderTemplate (plugin.go) as a call of its own: the template and the   *)
(* data map are drawn in the initial state, the order in which the map is  *)
(* iterated is chosen when the call runs.                                  *)
(***************************************************************************)
KeyName == <<"Name">>
KeyMissing == <<"Missing">>

\* Values a caller may pass: a version, an identifier, the empty text, and
\* an identifier whose name is spelled like the version token.
RenderValues == { <<"1", ".", "0">>, <<"M", ".", "A">>, <<>>,
                  <<"A", ".">> \o Token(KeyVersion) }

\* map[string]string with any of the keys the callers use.
RenderData == UNION { [K -> RenderValues] : K \in SUBSET {KeyPackageId, KeyVersion} }

RenderTemplates ==
    { DefaultTitle,
      <<"h", "/">> \o Token(KeyVersion) \o <<".", "x">>,
      <<"h", "/", "a">>,
      Token(KeyName) \o <<" ">> \o Token(KeyMissing),
      Token(KeyVersion) \o <<"-">> \o Token(KeyVersion),
      <<"{{.", "Version">>,
      <<>> }

renderOnly == <<pc, req, cfg, version, hashVars, manifests, ghClient, forkVars, prVars,
                result, reqs, resp, validation, ctx, origin, hashCall, runs, fork>>

\* renderTemplate has been called with a template and a data map.
InitRender ==
    /\ pc = "Idle"
    /\ req = [Hook |-> "", Version |-> <<>>, DryRun |-> FALSE, ConfigDryRun |-> FALSE]
    /\ cfg = ZeroConfig
    /\ version = <<>>
    /\ idx = 0
    /\ installers = <<>>
    /\ manifests = NoManifests
    /\ ghClient = NewGitHubClient(<<>>, <<>>)
    /\ user = <<>>
    /\ efRet = NoReturn
    /\ prOwner = <<>>
    /\ baseSHA = <<>>
    /\ branchName = <<>>
    /\ pending = {}
    /\ cpRet = NoReturn
    /\ result = NoResult
    /\ downloads = <<>>
    /\ reqs = <<>>
    /\ resp = NoAnswer
    /\ validation = NoValidation
    /\ ctx = LiveContext
    /\ origin = NoOrigin
    /\ hashCall = NoHashCall
    /\ \E t \in RenderTemplates : \E d \in RenderData :
         render = [state |-> "called", tmpl |-> t, data |-> d, order |-> <<>>,
                   result |-> <<>>]
    /\ runs = NoRuns
    /\ fork = NoFork

\* The call runs: the loop visits the keys of the map in some order.
Render ==
    /\ render.state = "called"
    /\ \E order \in Orders(DOMAIN render.data) :
         render' = [render EXCEPT !.state = "returned", !.order = order,
                                  !.result = renderTemplate(render.tmpl, render.data, order)]
    /\ UNCHANGED renderOnly

NextRender == Render

SpecRender == InitRender /\ [][NextRender]_vars

(***************************************************************************)
(* GenerateManifests (manifest.go) on configurations with several locale   *)
(* entries: a dry run without installers that has reached the composition  *)
(* of its manifests.                                                       *)
(***************************************************************************)
MaxLocales == 3

LocaleConfigs ==
    { [Locale |-> "en-US", Description |-> "Long"],
      [Locale |-> "en-US", Description |-> "Second"],
      [Locale |-> "en-US", Description |-> ""],
      [Locale |-> "fr-FR", Description |-> "Longue"] }

ComposeLocaleLists == UNION { [1..n -> LocaleConfigs] : n \in 0..MaxLocales }

ComposeConfigs ==
    [PackageID : PackageIDs, GitHubToken : Tokens, Installers : {<<>>},
     Metadata : {DefaultMetadata}, Locales : ComposeLocaleLists,
     PullRequest : {[ForkOwner |-> <<>>, BaseBranch |-> BaseBranchMaster,
                     Title |-> DefaultTitle]},
     DryRun : {TRUE}]

\* executePostPublish has left its (empty) installer loop.
InitCompose ==
    /\ pc = "ComposingManifests"
    /\ cfg \in ComposeConfigs
    /\ version \in Versions
    /\ req = [Hook |-> HookPostPublish, Version |-> version, DryRun |-> TRUE,
              ConfigDryRun |-> TRUE]
    /\ idx = 0
    /\ installers = <<>>
    /\ manifests = NoManifests
    /\ ghClient = NewGitHubClient(<<>>, <<>>)
    /\ user = <<>>
    /\ efRet = NoReturn
    /\ prOwner = <<>>
    /\ baseSHA = <<>>
    /\ branchName = <<>>
    /\ pending = {}
    /\ cpRet = NoReturn
    /\ result = NoResult
    /\ downloads = <<>>
    /\ reqs = <<>>
    /\ resp = NoAnswer
    /\ validation = NoValidation
    /\ ctx = LiveContext
    /\ origin = NoOrigin
    /\ hashCall = NoHashCall
    /\ render = NoRender
    /\ runs = NoRuns
    /\ fork = NoFork

NextCompose == ComposeManifests \/ DryRunReport

SpecCompose == InitCompose /\ [][NextCompose]_vars

(***************************************************************************)
(* Vocabulary of the properties.                                           *)
(***************************************************************************)
EnsureForkPCs == {"EnsureFork", "EnsureFork_forkExists", "EnsureFork_createFork",
                  "EnsureFork_settling"}
CreatePRPCs == {"CreatePR", "CreatePR_getBranchSHA", "CreatePR_createBranch",
                "CreatePR_commitFiles", "CreatePR_createPullRequest"}

\* The stage of the publish state machine a position of the code is in; a
\* run that panicked is in none of them.
Stage(p) ==
    CASE p = "Idle" -> "Idle"
      [] p = "HashingInstallers" -> "HashingInstallers"
      [] p = "ComposingManifests" -> "ComposingManifests"
      [] p = "DryRunReporting" -> "DryRunReporting"
      [] p \in EnsureForkPCs \cup CreatePRPCs -> "SubmittingPR"
      [] p = "Done" -> "Done"
      [] p = "Failed" -> "Failed"
      [] OTHER -> "Crashed"

Terminated == pc \in {"Done", "Failed", "Panicked"}

\* A run on the post-publish hook is under way or over.
PublishRun == pc # "Idle" /\ req.Hook = HookPostPublish

\* The effective dry-run flag, as the properties state it.
DryRunSet == req.ConfigDryRun \/ req.DryRun

LiveRun == PublishRun /\ ~DryRunSet

Last(seq) == seq[Len(seq)]

TextHashFailed == "Failed to calculate hash for installer %d: %v"
TextManifestsFailed == "Failed to generate manifests: %v"
TextDryRun == "[DRY-RUN] Would create PR for %s version %s"
TextEnsureForkFailed == "Failed to ensure fork: %v"
TextCreatePRFailed == "Failed to create PR: %v"
TextCreated == "Created PR for %s version %s: %s"

(***************************************************************************)
(* C1.  Every publish run moves through the stages only in the order       *)
(* HashingInstallers, ComposingManifests, then exactly one of              *)
(* DryRunReporting or SubmittingPR, and ends in Done or Failed; no stage   *)
(* is entered twice, no earlier stage after a later one, and nothing       *)
(* executes after Failed.  Stated as: every step of a publish run is one   *)
(* of the transitions of that machine.                                     *)
(***************************************************************************)
StageTransitions ==
    { <<"Idle", "HashingInstallers">>,
      <<"HashingInstallers", "HashingInstallers">>,
      <<"HashingInstallers", "ComposingManifests">>,
      <<"HashingInstallers", "Failed">>,
      <<"ComposingManifests", "DryRunReporting">>,
      <<"ComposingManifests", "SubmittingPR">>,
      <<"ComposingManifests", "Failed">>,
      <<"DryRunReporting", "Done">>,
      <<"DryRunReporting", "Failed">>,
      <<"SubmittingPR", "SubmittingPR">>,
      <<"SubmittingPR", "Done">>,
      <<"SubmittingPR", "Failed">> }

C1_StagesInOrder ==
    [][req'.Hook = HookPostPublish => <<Stage(pc), Stage(pc')>> \in StageTransitions]_vars

(***************************************************************************)
(* C2.  With a malformed package identifier and dry-run off, a publish run *)
(* issues no installer download and no REST request, and when it is over   *)
(* it has failed with the validation failure.                              *)
(***************************************************************************)
C2_MalformedIdNoNetwork ==
    (LiveRun /\ ~isValidPackageID(cfg.PackageID)) =>
        /\ downloads = <<>>
        /\ reqs = <<>>
        /\ Terminated => (pc = "Failed" /\ result.Message.text = TextManifestsFailed)

(***************************************************************************)
(* C3.  With the effective dry-run flag set (configured flag or request    *)
(* flag), a publish run performs no network operation: no download (every  *)
(* installer built carries the placeholder digest) and no REST request.    *)
(***************************************************************************)
C3_DryRunNoNetwork ==
    (PublishRun /\ DryRunSet) =>
        /\ downloads = <<>>
        /\ reqs = <<>>
        /\ \A k \in 1..Len(installers) : installers[k].InstallerSha256 = PlaceholderHash
        /\ pc \notin EnsureForkPCs \cup CreatePRPCs

\* A dry run asked for by the request alone has processed two installers
\* and is over.
C3_Witness ==
    /\ PublishRun /\ req.DryRun /\ ~req.ConfigDryRun
    /\ pc = "Done"
    /\ Len(installers) = 2

C5_FirstHashFailureAborts ==
    (LiveRun /\ \E k \in 1..Len(downloads) : ~downloads[k].ok) =>
        LET n == Len(downloads)
        IN  /\ \A k \in 1..n : downloads[k].index = k - 1
            /\ \A k \in 1..(n-1) : downloads[k].ok
            /\ pc = "Failed"
            /\ result.returned /\ ~result.Success
            /\ result.Message.text = TextHashFailed
            /\ result.Message.index = downloads[n].index
            /\ result.Message.err # Nil
            /\ resp.neterr => result.Message.err[1] = "failed to download installer"
            /\ (~resp.neterr /\ resp.status # 200) =>
                  result.Message.err = <<"download failed with status", ToString(resp.status)>>
            /\ Len(installers) = n - 1
            /\ ~manifests.set
            /\ reqs = <<>>

\* The first of two installers failed to hash.
C5_Witness ==
    /\ LiveRun /\ pc = "Failed"
    /\ Len(cfg.Installers) = 2
    /\ Len(downloads) = 1 /\ ~downloads[1].ok
    /\ resp.status = 404

(***************************************************************************)
(* C6.  In a live run that reaches SubmittingPR, EnsureFork is called      *)
(* before CreatePR; CreatePR is called only if EnsureFork returned without *)
(* error; the result is a success exactly when both succeeded, and then    *)
(* its message carries the PR URL that PR creation returned; if either     *)
(* fails the result is a failure carrying that step's error.               *)
(***************************************************************************)
CreatePRCalled ==
    \/ pc \in CreatePRPCs
    \/ cpRet.returned
    \/ \E k \in 1..Len(reqs) : reqs[k].call = "CreatePR"

C6_EnsureForkThenCreatePR ==
    LiveRun =>
        /\ CreatePRCalled => (efRet.returned /\ efRet.err = Nil)
        /\ \A i, j \in 1..Len(reqs) :
             (i < j /\ reqs[i].call = "CreatePR") => reqs[j].call = "CreatePR"
        /\ (efRet.returned /\ efRet.err = Nil /\ ~Terminated) => pc \in CreatePRPCs
        /\ (efRet.returned /\ Terminated) =>
             /\ result.returned
             /\ result.Success <=> (efRet.err = Nil /\ cpRet.returned /\ cpRet.err = Nil)
             /\ result.Success =>
                  /\ pc = "Done"
                  /\ result.Message.text = TextCreated
                  /\ Last(reqs).op = "createPullRequest"
                  /\ result.Message.url = resp.body.html_url
             /\ efRet.err # Nil =>
                  /\ pc = "Failed"
                  /\ ~cpRet.returned
                  /\ result.Message.text = TextEnsureForkFailed
                  /\ result.Message.err = efRet.err
             /\ (cpRet.returned /\ cpRet.err # Nil) =>
                  /\ pc = "Failed"
                  /\ result.Message.text = TextCreatePRFailed
                  /\ result.Message.err = cpRet.err

\* A live run without a configured fork owner ended with the second PR URL.
C6_Witness ==
    /\ LiveRun /\ pc = "Done"
    /\ ghClient.forkOwner = <<>>
    /\ result.Message.url = <<"p", "r", "2">>

(***************************************************************************)
(* C7.  Within one CreatePR call the REST steps are issued only in the     *)
(* order base-branch tip lookup, branch creation, the file commits,        *)
(* pull-request creation; each is issued only after every earlier request  *)
(* of the call succeeded and the step before it was taken; the pull        *)
(* request is opened only after all three manifest files were committed.   *)
(***************************************************************************)
StepRank(op) ==
    CASE op = "getBranchSHA" -> 1
      [] op = "createBranch" -> 2
      [] op = "commitFile" -> 3
      [] op = "createPullRequest" -> 4
      [] OTHER -> 0

CommittedBefore(j) ==
    { reqs[i].path : i \in { k \in 1..(j-1) : reqs[k].op = "commitFile" /\ reqs[k].ok } }

C7_CreatePRStepOrder ==
    \A j \in 1..Len(reqs) :
        (reqs[j].call = "CreatePR" /\ StepRank(reqs[j].op) >= 1) =>
            /\ \A i \in 1..(j-1) :
                 reqs[i].call = "CreatePR" =>
                    /\ reqs[i].ok
                    /\ StepRank(reqs[i].op) <= StepRank(reqs[j].op)
                    /\ StepRank(reqs[i].op) = StepRank(reqs[j].op) =>
                          (reqs[j].op = "commitFile" /\ reqs[i].path # reqs[j].path)
            /\ StepRank(reqs[j].op) >= 2 =>
                 \E i \in 1..(j-1) : /\ reqs[i].call = "CreatePR"
                                     /\ StepRank(reqs[i].op) = StepRank(reqs[j].op) - 1
            /\ reqs[j].op = "createPullRequest" =>
                 /\ Cardinality(CommittedBefore(j)) = 3
                 /\ CommittedBefore(j) = {VersionFile(manifests), InstallerFile(manifests),
                                          LocaleFile(manifests)}

\* A CreatePR call went through all its steps.
C7_Witness ==
    /\ LiveRun /\ pc = "Done"
    /\ cpRet.returned /\ cpRet.err = Nil
    /\ Len(reqs) >= 6

(***************************************************************************)
(* C8.  For each sub-step of CreatePR, any response status that is not 2xx *)
(* makes CreatePR return an error, and no later request of the call is     *)
(* issued: whenever the last answer to a request of CreatePR has such a    *)
(* status, CreatePR has returned an error and the run is Failed.           *)
(***************************************************************************)
C8_Non2xxFailsCreatePR ==
    (reqs # <<>> /\ Last(reqs).call = "CreatePR" /\ ~resp.neterr /\ ~Is2xx(resp.status)) =>
        /\ cpRet.returned
        /\ cpRet.err # Nil
        /\ pc = "Failed"

(***************************************************************************)
(* C9.  If a file commit fails after k (0 <= k < 3) manifest files were    *)
(* committed to the new branch, nothing more is requested: no delete or    *)
(* other compensating request, none of the remaining files, no pull        *)
(* request; the k files and the branch are left as they are and the run    *)
(* is Failed.                                                              *)
(***************************************************************************)
C9_PartialCommitLeftBehind ==
    \A j \in 1..Len(reqs) :
        (reqs[j].op = "commitFile" /\ ~reqs[j].ok) =>
            /\ j = Len(reqs)
            /\ pc = "Failed"
            /\ result.returned /\ ~result.Success
            /\ result.Message.text = TextCreatePRFailed
            /\ cpRet.returned /\ cpRet.err # Nil /\ cpRet.err[1] = "failed to commit files"
            /\ Cardinality(CommittedBefore(j)) \in 0..2
            /\ reqs[j].path \notin CommittedBefore(j)
            /\ pending = DOMAIN GetFiles(manifests) \ CommittedBefore(j)
            /\ \E i \in 1..(j-1) : /\ reqs[i].op = "createBranch" /\ reqs[i].ok
                                   /\ reqs[i].branch = reqs[j].branch
                                   /\ reqs[i].owner = reqs[j].owner
            /\ \A i \in 1..Len(reqs) : /\ reqs[i].method \in {"GET", "POST", "PUT"}
                                       /\ reqs[i].op # "createPullRequest"

\* The third file commit failed after two files were committed.
C9_Witness ==
    /\ LiveRun /\ pc = "Failed"
    /\ reqs # <<>> /\ Last(reqs).op = "commitFile" /\ ~Last(reqs).ok
    /\ Cardinality(CommittedBefore(Len(reqs))) = 2

\* No REST step is requested again: fork creation, branch creation and PR
\* creation at most once each, no file path committed twice, and nothing of
\* the same step after a failed request.
NoRestRetry ==
    \A i, j \in 1..Len(reqs) :
         i < j =>
            /\ reqs[i].op \in {"createFork", "createBranch", "createPullRequest"} =>
                  reqs[j].op # reqs[i].op
            /\ (reqs[i].op = "commitFile" /\ reqs[j].op = "commitFile") =>
                  reqs[i].path # reqs[j].path
            /\ ~reqs[i].ok => reqs[j].op # reqs[i].op

(***************************************************************************)
(* C10.  As claimed: no request is retried; in one publish run fork        *)
(* creation, branch creation, PR creation and the commit of any file path  *)
(* are each requested at most once, each installer URL is downloaded at    *)
(* most once, and after a failed step no request of that step follows.     *)
(***************************************************************************)
C10_NoRetryPerURL ==
    /\ NoRestRetry
    /\ \A i, j \in 1..Len(downloads) :
         i < j => (downloads[i].url # downloads[j].url /\ downloads[i].ok)

(***************************************************************************)
(* C10, amended.  No request is retried; fork creation, branch creation,   *)
(* PR creation and the commit of any file path are each requested at most  *)
(* once, each configured installer entry is downloaded at most once (two   *)
(* entries that render to the same URL are two downloads of that URL:      *)
(* nothing is cached), and after a failed step no request of that step     *)
(* follows.                                                                *)
(***************************************************************************)
C10_NoRetry ==
    /\ NoRestRetry
    /\ \A i, j \in 1..Len(downloads) :
         i < j => (downloads[i].index # downloads[j].index /\ downloads[i].ok)
    /\ Len(downloads) <= Len(cfg.Installers)

\* A live run that downloaded the same URL for two installer entries and
\* created its fork is done.
C10_Witness ==
    /\ LiveRun /\ pc = "Done"
    /\ Len(downloads) = 2
    /\ downloads[1].url = downloads[2].url
    /\ \E k \in 1..Len(reqs) : reqs[k].op = "createFork"

\* The identifier splits around its first '.' into exactly two non-empty
\* segments (the second may hold further dots).
TwoNonEmptySegments(id) ==
    \E k \in 2..(Len(id) - 1) : id[k] = "." /\ \A j \in 1..(k-1) : id[j] # "."

(***************************************************************************)
(* C11.  GenerateManifests returns an error and no ManifestSet for every   *)
(* identifier that does not split around its first '.' into two non-empty  *)
(* segments, and a complete ManifestSet and no error for every other one.  *)
(* Stated on the runs in which it was called: a dry run (where nothing     *)
(* else can fail) that is over has Failed on manifest generation without a *)
(* ManifestSet for such an identifier and is Done with one otherwise, and  *)
(* no run ever holds a ManifestSet for such an identifier.                 *)
(***************************************************************************)
C11_InvalidIdentifierRejected ==
    /\ (PublishRun /\ manifests.set) => TwoNonEmptySegments(cfg.PackageID)
    /\ (PublishRun /\ DryRunSet /\ Terminated) =>
         IF TwoNonEmptySegments(cfg.PackageID)
         THEN /\ pc = "Done"
              /\ manifests.set
              /\ DOMAIN manifests = {"set", "Version", "Installer", "Locale", "Path"}
         ELSE /\ pc = "Failed"
              /\ ~manifests.set
              /\ result.Message.text = TextManifestsFailed

(***************************************************************************)
(* C12.  isValidPackageID(id) is true exactly when id contains a '.' and   *)
(* both the part before the first '.' and the whole remainder after it are *)
(* non-empty: Validate reports the package_id error exactly for the other  *)
(* identifiers (the empty one, those without '.', those with an empty part *)
(* on either side of the first '.').                                       *)
(***************************************************************************)
C12_IsValidPackageID ==
    validation.returned =>
        /\ (\A k \in 1..Len(validation.Errors) : validation.Errors[k] # <<"package_id">>)
              <=> TwoNonEmptySegments(cfg.PackageID)
        /\ cfg.PackageID = <<>> => validation.Errors[1] = <<"package_id">>
        /\ isValidPackageID(cfg.PackageID) <=> TwoNonEmptySegments(cfg.PackageID)

\* An identifier with a second dot right after the first was validated and
\* drew no package_id error.
C12_Witness ==
    /\ validation.returned
    /\ cfg.PackageID = <<"A", ".", ".", "b">>
    /\ \A k \in 1..Len(validation.Errors) : validation.Errors[k] # <<"package_id">>

\* The installer entry a configured installer gives rise to, as the
\* property states it: the version put in place of every {{.Version}} of
\* the URL template, and the digest of what that URL serves (the
\* placeholder in a dry run).
ExpectedURL(ic, v) == ReplaceAll(ic.URL, <<"{{.", "Version", "}}">>, v)

EntryMatches(e, ic, v, dry) ==
    /\ e.Architecture = ic.Architecture
    /\ e.InstallerType = ic.Type
    /\ e.Scope = ic.Scope
    /\ e.ProductCode = ic.ProductCode
    /\ e.InstallerURL = ExpectedURL(ic, v)
    /\ e.InstallerSha256 = IF dry THEN PlaceholderHash
                           ELSE Sha256Hex(ServedBytes(ExpectedURL(ic, v)))

EntriesMatch(entries) ==
    /\ Len(entries) = Len(cfg.Installers)
    /\ \A k \in 1..Len(entries) :
         /\ EntryMatches(entries[k], cfg.Installers[k], req.Version, DryRunSet)
         /\ ~DryRunSet => /\ downloads[k].index = k - 1
                          /\ downloads[k].url = entries[k].InstallerURL
                          /\ downloads[k].ok

(***************************************************************************)
(* C13.  In every run that reaches ComposingManifests, the installer       *)
(* document holds exactly one entry per configured installer, in the       *)
(* configured order, each with that installer's architecture, type, scope  *)
(* and product code, its URL template with the release version             *)
(* substituted, and the digest computed for that same URL (the placeholder *)
(* in a dry run).                                                          *)
(***************************************************************************)
C13_InstallerEntriesInOrder ==
    PublishRun =>
        /\ pc = "ComposingManifests" => EntriesMatch(installers)
        /\ manifests.set => EntriesMatch(manifests.Installer.Installers)

\* A live run composed its manifests from two different installers, the
\* first with a version in its URL.
C13_Witness ==
    /\ LiveRun /\ manifests.set
    /\ Len(manifests.Installer.Installers) = 2
    /\ cfg.Installers[1] # cfg.Installers[2]
    /\ manifests.Installer.Installers[1].InstallerURL # cfg.Installers[1].URL
    /\ manifests.Installer.Installers[1].Architecture = "x64"

(***************************************************************************)
(* C14.  In every ManifestSet returned by GenerateManifests, the version   *)
(* document, the installer document and the locale document carry the      *)
(* same package identifier, the configured one, and the same version, the  *)
(* one passed in.                                                          *)
(***************************************************************************)
C14_DocumentsShareIdAndVersion ==
    (PublishRun /\ manifests.set) =>
        \A doc \in {manifests.Version, manifests.Installer, manifests.Locale} :
            /\ doc.PackageIdentifier = cfg.PackageID
            /\ doc.PackageVersion = req.Version

\* A ManifestSet for M.A, version 1.0, exists.
C14_Witness ==
    /\ PublishRun /\ manifests.set
    /\ manifests.Locale.PackageIdentifier = <<"M", ".", "A">>
    /\ manifests.Installer.PackageVersion = <<"1", ".", "0">>

\* The first character of a byte string: a lead byte 0xC3 opens a two-byte
\* character.  Its lower case: U+00DC (0xC3 0x9C) becomes U+00FC (0xC3 0xBC).
FirstCharacter(s) == IF s[1] = "0xC3" THEN SubSeq(s, 1, 2) ELSE SubSeq(s, 1, 1)

LowerCharacter(ch) ==
    IF ch = <<"0xC3", "0x9C">> THEN <<"0xC3", "0xBC">> ELSE ToLower(ch)

Namespace(id) == SubSeq(id, 1, IndexOf(id, ".") - 1)

(***************************************************************************)
(* C15.  For every identifier accepted by GenerateManifests and every      *)
(* version, the ManifestSet path equals "manifests/" + the lowercased      *)
(* first character of the namespace segment + "/" + the full identifier +  *)
(* "/" + the version.                                                      *)
(***************************************************************************)
C15_PathFromFirstCharacter ==
    (PublishRun /\ manifests.set) =>
        manifests.Path = <<"manifests", "/">>
                         \o LowerCharacter(FirstCharacter(Namespace(cfg.PackageID)))
                         \o <<"/">> \o cfg.PackageID \o <<"/">> \o req.Version

\* The three keys and contents GetFiles is to return, as the property
\* states them.
ExpectedKey(m, suffix) == m.Path \o <<"/">> \o cfg.PackageID \o suffix

ExpectedFiles(m) ==
    { <<ExpectedKey(m, <<".yaml">>), <<"# Created using Relicta", m.Version>>>>,
      <<ExpectedKey(m, <<".installer", ".yaml">>), <<"# Created using Relicta", m.Installer>>>>,
      <<ExpectedKey(m, <<".locale.", m.Locale.PackageLocale, ".yaml">>),
        <<"# Created using Relicta", m.Locale>>>> }

(***************************************************************************)
(* C16.  GetFiles on a ManifestSet returns exactly three entries, keyed    *)
(* <path>/<identifier>.yaml, <path>/<identifier>.installer.yaml and        *)
(* <path>/<identifier>.locale.<locale>.yaml with the locale document's     *)
(* locale tag, each content being the fixed header followed by that        *)
(* document's serialization: these are the files CreatePR sets out to      *)
(* commit after creating the branch, and every file commit sends one of    *)
(* them (base64-encoded).                                                  *)
(***************************************************************************)
C16_GetFilesThreeEntries ==
    (PublishRun /\ manifests.set) =>
        /\ Cardinality(DOMAIN GetFiles(manifests)) = 3
        /\ { <<p, GetFiles(manifests)[p]>> : p \in DOMAIN GetFiles(manifests) }
              = ExpectedFiles(manifests)
        /\ (pc = "CreatePR_commitFiles" /\ Last(reqs).op = "createBranch") =>
              pending = { f[1] : f \in ExpectedFiles(manifests) }
        /\ \A k \in 1..Len(reqs) :
              reqs[k].op = "commitFile" =>
                 \E f \in ExpectedFiles(manifests) :
                    /\ reqs[k].path = f[1]
                    /\ reqs[k].content = <<"base64">> \o f[2]

\* All three files of a ManifestSet were committed, the locale file last.
C16_Witness ==
    /\ LiveRun /\ pc = "CreatePR_createPullRequest"
    /\ Last(reqs).op = "commitFile"
    /\ Last(reqs).path = ExpectedKey(manifests, <<".locale.", "en-US", ".yaml">>)
    /\ Cardinality(CommittedBefore(Len(reqs) + 1)) = 3

\* The requests EnsureFork has issued, and the answer to the last request
\* when that request is the given step of EnsureFork.
EnsureForkRequests == SelectSeq(reqs, LAMBDA r : r.call = "EnsureFork")

JustAnswered(op) ==
    /\ reqs # <<>>
    /\ Last(reqs).call = "EnsureFork"
    /\ Last(reqs).op = op
    /\ ~resp.neterr

ForkCreations == { k \in 1..Len(reqs) : reqs[k].op = "createFork" }

(***************************************************************************)
(* C17.  When the Repository Client was constructed with a non-empty fork  *)
(* owner, EnsureFork returns exactly that owner with no error and issues   *)
(* no network request: no identity lookup, no fork probe, no fork          *)
(* creation.                                                               *)
(***************************************************************************)
C17_ConfiguredOwnerNoNetwork ==
    (LiveRun /\ cfg.PullRequest.ForkOwner # <<>>) =>
        /\ EnsureForkRequests = <<>>
        /\ pc \notin {"EnsureFork_forkExists", "EnsureFork_createFork", "EnsureFork_settling"}
        /\ efRet.returned => (efRet.val = cfg.PullRequest.ForkOwner /\ efRet.err = Nil)
        /\ pc \in CreatePRPCs => efRet.returned

\* EnsureFork returned the configured owner and CreatePR is under way.
C17_Witness ==
    /\ LiveRun /\ pc = "CreatePR"
    /\ efRet.returned /\ efRet.val = <<"m", "e">>
    /\ reqs = <<>>

(***************************************************************************)
(* C18.  When no fork owner is configured, identity lookup succeeds, the   *)
(* fork-existence probe answers 404 and fork creation answers 200 or 202,  *)
(* EnsureFork issues exactly one fork-creation request after the probe,    *)
(* waits the settling delay, and then returns the resolved identity        *)
(* without error.                                                          *)
(***************************************************************************)
C18_State ==
    LiveRun =>
        /\ (JustAnswered("getCurrentUser") /\ Last(reqs).ok) =>
              (user = resp.body.login /\ pc = "EnsureFork_forkExists")
        /\ (JustAnswered("forkExists") /\ resp.status = 404) =>
              /\ pc = "EnsureFork_createFork"
              /\ ~efRet.returned
              /\ ForkCreations = {}
        /\ (JustAnswered("createFork") /\ resp.status \in {200, 202}) =>
              /\ Cardinality(ForkCreations) = 1
              /\ Len(reqs) = 3
              /\ reqs[1].op = "getCurrentUser" /\ reqs[1].ok
              /\ reqs[2].op = "forkExists" /\ reqs[2].ok
              /\ \/ pc = "EnsureFork_settling" /\ ~efRet.returned
                 \/ /\ pc = "CreatePR"
                    /\ efRet.returned /\ efRet.err = Nil /\ efRet.val = user

\* EnsureFork returns after a fork creation only out of the settling delay,
\* and a probe answered 404 is followed by the fork-creation request.
C18_Step ==
    /\ (reqs # <<>> /\ Last(reqs).op = "createFork" /\ ~efRet.returned /\ efRet'.returned
           /\ efRet'.err = Nil)
         => (pc = "EnsureFork_settling" /\ reqs' = reqs /\ efRet'.val = user)
    /\ (pc = "EnsureFork_createFork" /\ pc' # pc)
         => (Len(reqs') = Len(reqs) + 1 /\ Last(reqs').op = "createFork")

C18_ForkCreatedWhenAbsent == [](C18_State) /\ [][C18_Step]_vars

\* The probe was answered 404, the fork creation 202, and EnsureFork
\* returned the identity looked up.
C18_Witness ==
    /\ LiveRun /\ pc = "CreatePR"
    /\ Len(reqs) = 3 /\ Last(reqs).op = "createFork"
    /\ resp.status = 202
    /\ efRet.returned /\ efRet.err = Nil /\ efRet.val = <<"h", "b">>

(***************************************************************************)
(* C19.  EnsureFork requests fork creation only after identity resolution  *)
(* succeeded and the fork-existence check succeeded with the answer        *)
(* 'absent'; when identity resolution fails, or the fork-existence check   *)
(* itself fails (transport error, or an error status other than 404, such  *)
(* as 401, 403 or 5xx), EnsureFork returns an error and no fork creation   *)
(* is requested; when fork creation fails EnsureFork returns an error.     *)
(***************************************************************************)
C19_ForkCreationOnlyWhenAbsent ==
    LiveRun =>
        /\ \A k \in ForkCreations :
              /\ k = 3
              /\ reqs[1].op = "getCurrentUser" /\ reqs[1].ok
              /\ reqs[2].op = "forkExists" /\ reqs[2].ok
              /\ ~reqs[k].ok => (efRet.returned /\ efRet.err # Nil)
        /\ (reqs # <<>> /\ Last(reqs).call = "EnsureFork"
              /\ \/ Last(reqs).op = "getCurrentUser" /\ ~Last(reqs).ok
                 \/ /\ Last(reqs).op = "forkExists"
                    /\ (resp.neterr \/ (resp.status >= 400 /\ resp.status # 404))) =>
              /\ efRet.returned /\ efRet.err # Nil
              /\ pc = "Failed"
              /\ ForkCreations = {}

(***************************************************************************)
(* C20.  The fork-existence probe treats every 2xx response status as      *)
(* 'fork exists': for any 2xx probe answer EnsureFork returns the resolved *)
(* identity and issues no fork-creation request.                           *)
(***************************************************************************)
C20_Probe2xxMeansExists ==
    (LiveRun /\ JustAnswered("forkExists") /\ Is2xx(resp.status)) =>
        /\ efRet.returned /\ efRet.err = Nil /\ efRet.val = user
        /\ pc = "CreatePR"
        /\ ForkCreations = {}


(***************************************************************************)
(* Properties of CalculateInstallerHash, stated of SpecHash.               *)
(***************************************************************************)
HashReturned == hashCall.state = "returned"

\* The call got as far as the resource itself: its last answer is neither
\* a transport failure nor a redirect.
FinalResponse == HashReturned /\ ~resp.neterr /\ ~resp.redirect

\* The server would answer with the resource in full and with status 200
\* once the chain of redirects is followed.
ServesOK == origin.status = 200 /\ ~origin.readerr

\* A chain of n redirects in front of such a resource is followed to its
\* end and the digest of the resource is returned.
RedirectsFollowed(n) ==
    (HashReturned /\ ~resp.neterr /\ origin.redirects = n /\ ServesOK) =>
        /\ hashCall.err = Nil
        /\ hashCall.hash = CalculateHashFromBytes(origin.content)

(***************************************************************************)
(* C21.  CalculateInstallerHash follows a chain of n redirects and returns *)
(* the digest of the final resource for every n from 0 to 10, and returns  *)
(* an error, without sending anything further, when the chain needs an     *)
(* 11th redirect.                                                          *)
(***************************************************************************)
C21_RedirectsUpToTen ==
    /\ \A n \in 0..RedirectLimit : RedirectsFollowed(n)
    /\ (HashReturned /\ origin.redirects > RedirectLimit) =>
          /\ hashCall.err # Nil
          /\ hashCall.hash = <<>>
          /\ hashCall.via <= RedirectLimit + 1

(***************************************************************************)
(* C22.  CalculateInstallerHash returns an error carrying the observed     *)
(* status, and no digest, for every final response whose status is not     *)
(* 2xx, and a digest for every final 2xx response whose body is read to    *)
(* its end.                                                                *)
(***************************************************************************)
C22_DigestExactlyOn2xx ==
    FinalResponse =>
        /\ ~Is2xx(resp.status) =>
              /\ hashCall.hash = <<>>
              /\ hashCall.err = <<"download failed with status", ToString(resp.status)>>
        /\ (Is2xx(resp.status) /\ ~resp.readerr) =>
              /\ hashCall.err = Nil
              /\ hashCall.hash = Sha256Hex(resp.content)

(***************************************************************************)
(* C23.  For every byte sequence served with a success status the result   *)
(* of CalculateInstallerHash equals CalculateHashFromBytes of the bytes,   *)
(* the uppercase hexadecimal SHA-256 digest; for the empty byte sequence   *)
(* it is E3B0C442...7852B855.                                              *)
(***************************************************************************)
C23_DigestOfServedBytes ==
    (FinalResponse /\ Is2xx(resp.status) /\ ~resp.readerr) =>
        /\ hashCall.err = Nil
        /\ hashCall.hash = CalculateHashFromBytes(origin.content)
        /\ origin.content = <<>> =>
              hashCall.hash =
                <<"E3B0C44298FC1C149AFBF4C8996FB92427AE41E4649B934CA495991B7852B855">>

(***************************************************************************)
(* Properties of renderTemplate, stated of SpecRender.                     *)
(***************************************************************************)
StartsWith(s, t) == Len(s) >= Len(t) /\ SubSeq(s, 1, Len(t)) = t

\* The template with every token of a key of the map replaced by the value
\* of that key, and everything else kept: one pass from left to right.
RECURSIVE Substituted(_, _)
Substituted(s, data) ==
    IF s = <<>> THEN <<>>
    ELSE IF \E k \in DOMAIN data : StartsWith(s, Token(k))
    THEN LET k == CHOOSE k \in DOMAIN data : StartsWith(s, Token(k))
         IN  data[k] \o Substituted(SubSeq(s, Len(Token(k)) + 1, Len(s)), data)
    ELSE <<s[1]>> \o Substituted(Tail(s), data)

HasToken(s) == \E k \in 1..Len(s) : s[k] = "{{."

(***************************************************************************)
(* C24.  renderTemplate replaces every occurrence of the token {{.K}} by   *)
(* the value of K for each key K of the data map, leaves every token whose *)
(* key is not in the map verbatim, and returns a template without tokens   *)
(* unchanged.                                                              *)
(***************************************************************************)
C24_TokensReplacedByValues ==
    render.state = "returned" =>
        /\ render.result = Substituted(render.tmpl, render.data)
        /\ ~HasToken(render.tmpl) => render.result = render.tmpl

(***************************************************************************)
(* C25.  If the caller cancels at any point of a publish run before it has *)
(* finished, the run is aborted: it ends Failed, no REST request and no    *)
(* download issued after the cancellation completes successfully, and no   *)
(* request that would clean up the fork, the branch or the committed files *)
(* is issued.                                                              *)
(***************************************************************************)
NothingSucceedsAfterCancel ==
    /\ \A k \in 1..Len(reqs) : k > ctx.reqs => ~reqs[k].ok
    /\ \A k \in 1..Len(downloads) : k > ctx.downloads => ~downloads[k].ok

NoCleanupRequest ==
    \A k \in 1..Len(reqs) :
        /\ reqs[k].method \in {"GET", "POST", "PUT"}
        /\ reqs[k].op \in {"getCurrentUser", "forkExists", "createFork", "getBranchSHA",
                           "createBranch", "commitFile", "createPullRequest"}

C25_CancelAborts ==
    ctx.cancelled =>
        /\ Terminated => pc = "Failed"
        /\ NothingSucceedsAfterCancel
        /\ NoCleanupRequest

(***************************************************************************)
(* C26.  Every error of a publish run (invalid identifier, hashing         *)
(* failure, manifest composition failure, EnsureFork failure, CreatePR     *)
(* failure) reaches the caller as a result with the success flag false and *)
(* a descriptive message; Execute never crashes, whatever the              *)
(* configuration.                                                          *)
(***************************************************************************)
FailureTexts == {TextHashFailed, TextManifestsFailed, TextEnsureForkFailed,
                 TextCreatePRFailed}

\* An error has occurred in the run.
RunErred ==
    \/ ~isValidPackageID(cfg.PackageID)
    \/ (downloads # <<>> /\ ~Last(downloads).ok)
    \/ (efRet.returned /\ efRet.err # Nil)
    \/ (cpRet.returned /\ cpRet.err # Nil)

C26_ErrorsReachCaller ==
    PublishRun =>
        /\ pc # "Panicked"
        /\ Terminated => result.returned
        /\ (Terminated /\ RunErred) =>
              /\ ~result.Success
              /\ result.Message.text \in FailureTexts
              /\ result.Message.err # Nil

(***************************************************************************)
(* C27.  Every request the Repository Client sends carries the header      *)
(* Authorization: "Bearer <token>" with the client's token, Accept:        *)
(* application/vnd.github+json and X-GitHub-Api-Version: 2022-11-28.       *)
(***************************************************************************)
C27_HeadersOnEveryRequest ==
    \A k \in 1..Len(reqs) :
        /\ reqs[k].auth = <<"Bearer ">> \o ghClient.token
        /\ ghClient.token = cfg.GitHubToken
        /\ reqs[k].accept = "application/vnd.github+json"
        /\ reqs[k].apiVersion = "2022-11-28"

\* A live run that created its fork and its pull request: ten requests,
\* one of every kind the client sends.
C27_Witness ==
    /\ LiveRun /\ pc = "Done"
    /\ Len(reqs) = 10
    /\ \A op \in {"getCurrentUser", "forkExists", "createFork", "getBranchSHA",
                  "createBranch", "commitFile", "createPullRequest"} :
          \E k \in 1..Len(reqs) : reqs[k].op = op

(***************************************************************************)
(* C28.  The branch CreatePR creates is named "winget/" + the package      *)
(* identifier with every '.' replaced by '-' + "/" + the version; it is    *)
(* created in the fork from the tip commit of the upstream base branch     *)
(* read in the same call; the pull request is opened with head             *)
(* "<forkOwner>:<that branch>" and with the configured base branch as      *)
(* base.                                                                   *)
(***************************************************************************)
Dashed(id) == [k \in 1..Len(id) |-> IF id[k] = "." THEN "-" ELSE id[k]]

ExpectedBranch == <<"winget/">> \o Dashed(cfg.PackageID) \o <<"/">> \o version

C28_State ==
    \A k \in 1..Len(reqs) :
        /\ reqs[k].op = "createBranch" =>
              /\ reqs[k].branch = ExpectedBranch
              /\ reqs[k].owner = prOwner
              /\ cfg.PullRequest.ForkOwner # <<>> => prOwner = cfg.PullRequest.ForkOwner
              /\ k > 1
              /\ reqs[k-1].call = "CreatePR" /\ reqs[k-1].op = "getBranchSHA"
              /\ reqs[k-1].ok
              /\ reqs[k-1].owner = wingetPkgsOwner
              /\ reqs[k-1].branch = cfg.PullRequest.BaseBranch
              /\ reqs[k].sha = baseSHA
        /\ reqs[k].op = "createPullRequest" =>
              /\ reqs[k].owner = wingetPkgsOwner
              /\ reqs[k].head = prOwner \o <<":">> \o ExpectedBranch
              /\ reqs[k].base = cfg.PullRequest.BaseBranch
              /\ \E j \in 1..(k-1) :
                    /\ reqs[j].op = "createBranch" /\ reqs[j].ok
                    /\ reqs[j].owner \o <<":">> \o reqs[j].branch = reqs[k].head

\* What CreatePR keeps of its two lookups is what they were answered.
C28_Step ==
    /\ (pc = "CreatePR_getBranchSHA" /\ pc' = "CreatePR_createBranch") =>
          baseSHA' = resp'.body.sha
    /\ (pc = "CreatePR" /\ pc' = "CreatePR_getBranchSHA" /\ reqs' # reqs) =>
          prOwner' = resp'.body.login

C28_BranchAndPullRequest == [](C28_State) /\ [][C28_Step]_vars

\* The pull request for M.A 1.0 was opened from the looked-up user's branch.
C28_Witness ==
    /\ LiveRun /\ pc = "Done"
    /\ Last(reqs).op = "createPullRequest"
    /\ Last(reqs).head = <<"o", "c", ":", "winget/", "M", "-", "A", "/", "1", ".", "0">>
    /\ Last(reqs).base = <<"master">>

(***************************************************************************)
(* C29.  Each mutating REST step succeeds exactly on its listed statuses:  *)
(* branch creation on 201 only, a file commit on 200 or 201 only, fork     *)
(* creation on 200 or 202 only; with any other status, other 2xx statuses  *)
(* included, the step fails and the enclosing call returns an error.       *)
(***************************************************************************)
SuccessStatuses(op) ==
    CASE op = "createBranch" -> {201}
      [] op = "commitFile" -> {200, 201}
      [] op = "createFork" -> {200, 202}

\* The last request issued is the given step; resp is its answer.
LastAnswered(op) == reqs # <<>> /\ Last(reqs).op = op

EnclosingCallFailed(op) ==
    IF op = "createFork"
    THEN efRet.returned /\ efRet.err # Nil /\ ~cpRet.returned
    ELSE cpRet.returned /\ cpRet.err # Nil

C29_MutatingStepStatuses ==
    \A op \in {"createBranch", "commitFile", "createFork"} :
        LastAnswered(op) =>
            /\ Last(reqs).ok <=> (~resp.neterr /\ resp.status \in SuccessStatuses(op))
            /\ EnclosingCallFailed(op) <=> ~Last(reqs).ok
            /\ ~Last(reqs).ok => pc = "Failed"

\* A branch creation answered 200 has failed the run.
C29_Witness ==
    /\ LastAnswered("createBranch")
    /\ ~resp.neterr /\ resp.status = 200
    /\ cpRet.returned /\ cpRet.err # Nil /\ pc = "Failed"

(***************************************************************************)
(* C30.  The locale document's long description is the description of the  *)
(* first configured locale entry whose tag is en-US, and is empty when     *)
(* there is none; entries with any other tag influence no document; the    *)
(* default locale of the version document and the locale of the locale     *)
(* document are always en-US.  Stated of SpecCompose.                      *)
(***************************************************************************)
EnUSPositions(locales) == { k \in 1..Len(locales) : locales[k].Locale = "en-US" }

ExpectedDescription(locales) ==
    IF EnUSPositions(locales) = {} THEN ""
    ELSE LET first == CHOOSE k \in EnUSPositions(locales) :
                         \A j \in EnUSPositions(locales) : k <= j
         IN  locales[first].Description

\* The configuration with every entry of another tag taken out.
OnlyEnUS(c) == [c EXCEPT !.Locales = SelectSeq(c.Locales, LAMBDA l : l.Locale = "en-US")]

C30_LocaleDescription ==
    manifests.set =>
        /\ manifests.Locale.Description = ExpectedDescription(cfg.Locales)
        /\ manifests = GenerateManifests(OnlyEnUS(cfg), version, installers).set
        /\ manifests.Version.DefaultLocale = "en-US"
        /\ manifests.Locale.PackageLocale = "en-US"

\* Manifests were composed from a French entry followed by two en-US
\* entries: the first en-US description was taken.
C30_Witness ==
    /\ manifests.set
    /\ cfg.Locales = << [Locale |-> "fr-FR", Description |-> "Longue"],
                        [Locale |-> "en-US", Description |-> "Long"],
                        [Locale |-> "en-US", Description |-> "Second"] >>
    /\ manifests.Locale.Description = "Long"
    /\ pc = "Done"

(***************************************************************************)
(* Properties of Validate as a whole, stated of SpecValidate.              *)
(***************************************************************************)
\* The number of characters of the description texts the model uses.
CharLen(s) ==
    CASE s = "" -> 0
      [] s = LongDescription -> 257
      [] s = MultiByteDescription -> 200
      [] OTHER -> 6

\* The rules a configuration violates, each named by the field it is
\* reported under.
ViolatedRules(c) ==
    { f \in { <<"package_id">> } : ~TwoNonEmptySegments(c.PackageID) }
    \cup { f \in { <<"github_token">> } : c.GitHubToken = <<>> }
    \cup { f \in { <<"installers">> } : Len(c.Installers) = 0 }
    \cup { <<"installers[%d].url", i - 1>> : i \in { k \in 1..Len(c.Installers) :
                                                     c.Installers[k].URL = <<>> } }
    \cup { <<"installers[%d].architecture", i - 1>> :
             i \in { k \in 1..Len(c.Installers) :
                       c.Installers[k].Architecture \notin {"x86", "x64", "arm", "arm64"} } }
    \cup { f \in { <<"metadata.publisher">> } : c.Metadata.Publisher = "" }
    \cup { f \in { <<"metadata.name">> } : c.Metadata.Name = "" }
    \cup { f \in { <<"metadata.license">> } : c.Metadata.License = "" }
    \cup { f \in { <<"metadata.short_description">> } :
             \/ c.Metadata.ShortDescription = ""
             \/ CharLen(c.Metadata.ShortDescription) > 256 }

ReportedFields == { validation.Errors[k] : k \in 1..Len(validation.Errors) }

(***************************************************************************)
(* C31.  Validate performs no network operation and returns an empty error *)
(* list exactly when all rules hold (valid identifier, non-empty token, at *)
(* least one installer, every installer with a URL and an architecture of  *)
(* x86, x64, arm or arm64, non-empty publisher, name and license, a short  *)
(* description that is non-empty and at most 256 characters); otherwise it *)
(* reports one error per violated rule, indexed by installer position.     *)
(***************************************************************************)
C31_ValidateReportsEveryRule ==
    validation.returned =>
        /\ reqs = <<>> /\ downloads = <<>>
        /\ validation.Valid <=> validation.Errors = <<>>
        /\ validation.Errors = <<>> <=> ViolatedRules(cfg) = {}
        /\ ReportedFields = ViolatedRules(cfg)
        /\ Len(validation.Errors) = Cardinality(ViolatedRules(cfg))

(***************************************************************************)
(* Several publish runs for the same package identifier, version and fork  *)
(* owner, each in its own process, at their CreatePR calls (github.go).    *)
(* The runs share nothing but the fork on the hosting service; their REST  *)
(* calls interleave in any order.  The service does not answer 201 to the  *)
(* creation of a ref that exists, and accepts a file only on a branch that *)
(* exists; beyond that it answers as in the single run.                    *)
(***************************************************************************)
Runs == {1, 2}

SharedConfig ==
    [PackageID |-> <<"M", ".", "A">>, GitHubToken |-> <<"t", "k">>,
     Installers |-> <<>>, Metadata |-> DefaultMetadata,
     Locales |-> << [Locale |-> "en-US", Description |-> "Long"] >>,
     PullRequest |-> [ForkOwner |-> <<"m", "e">>, BaseBranch |-> BaseBranchMaster,
                      Title |-> DefaultTitle],
     DryRun |-> FALSE]

\* A run that has not called CreatePR yet.
NewRun == [pc |-> "CreatePR", prOwner |-> <<>>, baseSHA |-> <<>>, branchName |-> <<>>,
           pending |-> {}, reqs |-> <<>>, created |-> 0, restart |-> FALSE,
           ret |-> NoReturn]

\* Whether run r ended in a failure after the service had created its branch.
FailedAfterBranch(r) == runs[r].pc = "Failed" /\ runs[r].created = 201

InitShared ==
    /\ pc = "CreatePR"
    /\ cfg = SharedConfig
    /\ version \in Versions
    /\ req = [Hook |-> HookPostPublish, Version |-> version, DryRun |-> FALSE,
              ConfigDryRun |-> FALSE]
    /\ idx = 0
    /\ installers = <<>>
    /\ manifests = GenerateManifests(cfg, version, installers).set
    /\ ghClient = NewGitHubClient(cfg.GitHubToken, cfg.PullRequest.ForkOwner)
    /\ user = <<>>
    /\ efRet = [returned |-> TRUE, val |-> cfg.PullRequest.ForkOwner, err |-> Nil]
    /\ prOwner = <<>>
    /\ baseSHA = <<>>
    /\ branchName = <<>>
    /\ pending = {}
    /\ cpRet = NoReturn
    /\ result = NoResult
    /\ downloads = <<>>
    /\ reqs = <<>>
    /\ resp = NoAnswer
    /\ validation = NoValidation
    /\ ctx = LiveContext
    /\ origin = NoOrigin
    /\ hashCall = NoHashCall
    /\ render = NoRender
    /\ runs = [r \in Runs |-> NewRun]
    /\ fork = NoFork

sharedOnly == <<pc, req, cfg, version, hashVars, manifests, ghClient, forkVars, prVars,
                result, reqs, resp, validation, ctx, origin, hashCall, render>>

\* What the service may answer to the creation of a ref in the fork.
BranchAnswers(branch) ==
    IF branch \in fork.refs
    THEN {a \in PlainAnswers : a.neterr \/ a.status # 201}
    ELSE PlainAnswers

\* What the service may answer to a file put on a branch of the fork.
CommitAnswers(branch) ==
    IF branch \in fork.refs
    THEN PlainAnswers
    ELSE {a \in PlainAnswers : a.neterr \/ a.status \notin {200, 201}}

\* CreatePR of run r returns.
RunReturns(r, val, err) ==
    [runs[r] EXCEPT !.pc = IF err # Nil THEN "Failed" ELSE "Done",
                    !.ret = [returned |-> TRUE, val |-> val, err |-> err]]

\* Run r calls CreatePR: the fork owner is configured.
Run_CreatePR(r) ==
    /\ runs[r].pc = "CreatePR"
    /\ ghClient.forkOwner # <<>>
    /\ runs' = [runs EXCEPT ![r] =
                  [@ EXCEPT !.pc = "CreatePR_getBranchSHA",
                            !.prOwner = ghClient.forkOwner,
                            !.restart = \E o \in Runs \ {r} : FailedAfterBranch(o)]]
    /\ UNCHANGED <<sharedOnly, fork>>

Run_GetBranchSHA(r) ==
    /\ runs[r].pc = "CreatePR_getBranchSHA"
    /\ \E a \in Under(ctx, RefAnswers) :
         LET b == getBranchSHA(a)
             sent == Append(runs[r].reqs,
                            Request("CreatePR", "getBranchSHA", "GET",
                                    [Target EXCEPT !.owner = wingetPkgsOwner,
                                                   !.branch = cfg.PullRequest.BaseBranch],
                                    ghClient.token, b.err = Nil))
         IN  runs' = [runs EXCEPT ![r] =
                        IF b.err # Nil
                        THEN [RunReturns(r, <<>>, Wrap("failed to get base branch SHA", b.err))
                                EXCEPT !.reqs = sent]
                        ELSE [@ EXCEPT !.pc = "CreatePR_createBranch",
                                       !.baseSHA = b.val,
                                       !.reqs = sent]]
    /\ UNCHANGED <<sharedOnly, fork>>

\* A branch creation whose failure is passed over: the run goes on to
\* commit its files to the branch that is there.
Run_CreateBranch_Resumed(r) ==
    /\ runs[r].pc = "CreatePR_createBranch"
    /\ \E a \in Under(ctx, BranchAnswers(BranchName(manifests))) : \E reached \in BOOLEAN :
         LET err == createBranch(a)
             sent == Append(runs[r].reqs,
                            Request("CreatePR", "createBranch", "POST",
                                    [Target EXCEPT !.owner = runs[r].prOwner,
                                                   !.branch = BranchName(manifests),
                                                   !.sha = runs[r].baseSHA],
                                    ghClient.token, err = Nil))
         IN  /\ runs' = [runs EXCEPT ![r] =
                           [@ EXCEPT !.pc = "CreatePR_commitFiles",
                                     !.pending = DOMAIN GetFiles(manifests),
                                     !.branchName = BranchName(manifests),
                                     !.created = IF a.neterr THEN 0 ELSE a.status,
                                     !.reqs = sent]]
             /\ fork' = IF (~a.neterr /\ a.status = 201) \/ (a.neterr /\ reached)
                        THEN [fork EXCEPT !.refs = @ \cup {BranchName(manifests)}]
                        ELSE fork
    /\ UNCHANGED sharedOnly

\* createBranch of run r and, when it succeeded, manifests.GetFiles().  A
\* request whose answer is lost may or may not have reached the service.
Run_CreateBranch(r) ==
    /\ runs[r].pc = "CreatePR_createBranch"
    /\ \E a \in Under(ctx, BranchAnswers(BranchName(manifests))) : \E reached \in BOOLEAN :
         LET err == createBranch(a)
             sent == Append(runs[r].reqs,
                            Request("CreatePR", "createBranch", "POST",
                                    [Target EXCEPT !.owner = runs[r].prOwner,
                                                   !.branch = BranchName(manifests),
                                                   !.sha = runs[r].baseSHA],
                                    ghClient.token, err = Nil))
         IN  /\ runs' = [runs EXCEPT ![r] =
                           IF err # Nil
                           THEN [RunReturns(r, <<>>, Wrap("failed to create branch", err))
                                   EXCEPT !.branchName = BranchName(manifests),
                                          !.created = IF a.neterr THEN 0 ELSE a.status,
                                          !.reqs = sent]
                           ELSE [@ EXCEPT !.pc = "CreatePR_commitFiles",
                                          !.pending = DOMAIN GetFiles(manifests),
                                          !.branchName = BranchName(manifests),
                                          !.created = a.status,
                                          !.reqs = sent]]
             /\ fork' = IF (~a.neterr /\ a.status = 201) \/ (a.neterr /\ reached)
                        THEN [fork EXCEPT !.refs = @ \cup {BranchName(manifests)}]
                        ELSE fork
    /\ UNCHANGED sharedOnly

\* One iteration of commitFiles' loop in run r.
Run_CommitFile(r) ==
    /\ runs[r].pc = "CreatePR_commitFiles"
    /\ \E path \in runs[r].pending : \E a \in Under(ctx, CommitAnswers(runs[r].branchName)) :
         LET err == commitFile(a)
             sent == Append(runs[r].reqs,
                            Request("CreatePR", "commitFile", "PUT",
                                    [Target EXCEPT !.owner = runs[r].prOwner,
                                                   !.branch = runs[r].branchName,
                                                   !.path = path,
                                                   !.content = Base64(
                                                      GetFiles(manifests)[path])],
                                    ghClient.token, err = Nil))
         IN  /\ runs' = [runs EXCEPT ![r] =
                           IF err # Nil
                           THEN [RunReturns(r, <<>>, Wrap("failed to commit files", err))
                                   EXCEPT !.reqs = sent]
                           ELSE [@ EXCEPT !.pending = @ \ {path},
                                          !.pc = IF runs[r].pending \ {path} = {}
                                                 THEN "CreatePR_createPullRequest"
                                                 ELSE "CreatePR_commitFiles",
                                          !.reqs = sent]]
             /\ fork' = IF err = Nil
                        THEN [fork EXCEPT !.files = @ \cup {<<runs[r].branchName, path>>}]
                        ELSE fork
    /\ UNCHANGED sharedOnly

Run_CreatePullRequest(r) ==
    /\ runs[r].pc = "CreatePR_createPullRequest"
    /\ \E order \in Orders({KeyPackageId, KeyVersion}) : \E a \in Under(ctx, PRAnswers) :
         LET p == createPullRequest(a)
             head == runs[r].prOwner \o <<":">> \o runs[r].branchName
             sent == Append(runs[r].reqs,
                            Request("CreatePR", "createPullRequest", "POST",
                                    [Target EXCEPT
                                       !.owner = wingetPkgsOwner,
                                       !.head = head,
                                       !.base = cfg.PullRequest.BaseBranch,
                                       !.title = PRTitle(cfg.PullRequest.Title,
                                                         manifests, order)],
                                    ghClient.token, p.err = Nil))
         IN  /\ runs' = [runs EXCEPT ![r] =
                           IF p.err # Nil
                           THEN [RunReturns(r, <<>>, Wrap("failed to create PR", p.err))
                                   EXCEPT !.reqs = sent]
                           ELSE [RunReturns(r, p.val, Nil) EXCEPT !.reqs = sent]]
             /\ fork' = IF p.err = Nil
                        THEN [fork EXCEPT !.pulls = @ \cup {head}]
                        ELSE fork
    /\ UNCHANGED sharedOnly

NextShared ==
    \/ \E r \in Runs : Run_CreatePR(r)
    \/ \E r \in Runs : Run_GetBranchSHA(r)
    \/ \E r \in Runs : Run_CreateBranch(r)
    \/ \E r \in Runs : Run_CommitFile(r)
    \/ \E r \in Runs : Run_CreatePullRequest(r)

SpecShared == InitShared /\ [][NextShared]_vars

\* Someone deletes a branch of the fork, with the files committed to it.
DeleteBranch ==
    /\ \E b \in fork.refs :
         fork' = [fork EXCEPT !.refs = @ \ {b},
                              !.files = {f \in @ : f[1] # b}]
    /\ UNCHANGED <<sharedOnly, runs>>

SpecRestart == InitShared /\ [][NextShared \/ DeleteBranch]_vars

(***************************************************************************)
(* Properties of runs that share a fork, stated of SpecShared and          *)
(* SpecRestart.                                                            *)
(***************************************************************************)
RunRequests(r, op) == SelectSeq(runs[r].reqs, LAMBDA q : q.op = op)

RunCommitted(r) == RunRequests(r, "commitFile") # <<>>

FailedAtBranchCreation(r) ==
    /\ runs[r].pc = "Failed"
    /\ runs[r].ret.returned
    /\ StartsWith(runs[r].ret.err, <<"failed to create branch">>)
    /\ Last(runs[r].reqs).op = "createBranch"

(***************************************************************************)
(* C32.  When two publish runs for the same package identifier, version    *)
(* and fork owner interleave their REST calls in any order, a run commits  *)
(* files and opens a pull request only if its own branch-creation request  *)
(* was answered 201; as the service does not answer 201 for a ref that     *)
(* exists, at most one of the two runs commits files to the branch, and a  *)
(* run whose branch creation was not answered 201 ends Failed at branch    *)
(* creation without having committed anything.                             *)
(***************************************************************************)
C32_OnlyTheBranchCreatorCommits ==
    /\ \A r \in Runs :
         /\ (RunCommitted(r) \/ RunRequests(r, "createPullRequest") # <<>>)
               => runs[r].created = 201
         /\ (RunRequests(r, "createBranch") # <<>> /\ runs[r].created # 201)
               => FailedAtBranchCreation(r) /\ ~RunCommitted(r)
         /\ Len(RunRequests(r, "createBranch")) <= 1
    /\ Cardinality({r \in Runs : RunCommitted(r)}) <= 1
    /\ Cardinality({r \in Runs : runs[r].created = 201}) <= 1

\* One run is committing to the branch it created while the other has been
\* refused the same branch and has returned.
C32_Witness ==
    \E r \in Runs : \E o \in Runs \ {r} :
        /\ runs[r].created = 201
        /\ runs[r].pc = "CreatePR_commitFiles"
        /\ Len(RunRequests(r, "commitFile")) = 2
        /\ FailedAtBranchCreation(o)
        /\ runs[o].created = 300
        /\ ~runs[r].restart /\ ~runs[o].restart

(***************************************************************************)
(* C37.  After a run failed at any point after its branch was created, a   *)
(* new run for the same package identifier, version and fork owner fails   *)
(* at branch creation and commits nothing, as long as the leftover branch  *)
(* still exists in the fork; a restarted run never resumes or completes    *)
(* the earlier run's partial commit set: it commits only to a branch it    *)
(* created itself, and then every file of the set.                         *)
(***************************************************************************)
C37_State ==
    \A r \in Runs :
        runs[r].restart =>
            /\ RunCommitted(r) => runs[r].created = 201
            /\ runs[r].pc = "CreatePR_commitFiles" =>
                  runs[r].pending \cup
                  { RunRequests(r, "commitFile")[k].path :
                      k \in 1..Len(RunRequests(r, "commitFile")) }
                  = DOMAIN GetFiles(manifests)
            /\ runs[r].pc = "CreatePR_createPullRequest" =>
                  Len(RunRequests(r, "commitFile")) = Cardinality(DOMAIN GetFiles(manifests))

C37_Step ==
    \A r \in Runs :
        ( /\ runs[r].restart
          /\ runs[r].pc = "CreatePR_createBranch"
          /\ runs'[r] # runs[r]
          /\ BranchName(manifests) \in fork.refs )
        => /\ runs'[r].pc = "Failed"
           /\ StartsWith(runs'[r].ret.err, <<"failed to create branch">>)
           /\ SelectSeq(runs'[r].reqs, LAMBDA q : q.op = "commitFile") = <<>>
           /\ fork'.files = fork.files

C37_RestartFailsAtBranchCreation == [](C37_State) /\ [][C37_Step]_vars

\* A run failed at its second commit; the run started after it was refused
\* the branch, which still holds the first run's one file.
C37_Witness ==
    \E r \in Runs : \E o \in Runs \ {r} :
        /\ FailedAfterBranch(o)
        /\ Len(RunRequests(o, "commitFile")) = 2
        /\ runs[r].restart
        /\ FailedAtBranchCreation(r)
        /\ ~RunCommitted(r)
        /\ BranchName(manifests) \in fork.refs
        /\ Cardinality(fork.files) = 1

(***************************************************************************)
(* C33.  In a live run with no fork owner configured, the owner under      *)
(* which CreatePR creates the branch, commits the files and forms the PR   *)
(* head is the owner EnsureFork returned in that run, whatever the         *)
(* identity endpoint answers to each of its requests.                      *)
(***************************************************************************)
C33_CreatePRUsesEnsureForkOwner ==
    (LiveRun /\ cfg.PullRequest.ForkOwner = <<>> /\ efRet.returned /\ efRet.err = Nil) =>
        \A k \in 1..Len(reqs) :
            /\ reqs[k].op \in {"createBranch", "commitFile"}
                  => reqs[k].owner = efRet.val
            /\ reqs[k].op = "createPullRequest"
                  => StartsWith(reqs[k].head, efRet.val \o <<":">>)

(***************************************************************************)
(* C34.  Within one CreatePR call, every file-commit request targets the   *)
(* branch and owner of the preceding successful branch-creation request,   *)
(* the PR head references that same owner and branch, and on success       *)
(* exactly three file-commit requests were issued, one per distinct        *)
(* manifest path, whatever order the files are iterated in.                *)
(***************************************************************************)
BranchCreations == { k \in 1..Len(reqs) : reqs[k].op = "createBranch" /\ reqs[k].ok }

CommitRequests == SelectSeq(reqs, LAMBDA q : q.op = "commitFile")

C34_CommitsFollowTheBranch ==
    /\ \A k \in 1..Len(reqs) :
         /\ reqs[k].op = "commitFile" =>
               \E j \in BranchCreations :
                   /\ j < k
                   /\ \A i \in (j + 1)..(k - 1) : reqs[i].op = "commitFile"
                   /\ reqs[k].owner = reqs[j].owner
                   /\ reqs[k].branch = reqs[j].branch
         /\ reqs[k].op = "createPullRequest" =>
               \E j \in BranchCreations :
                   /\ j < k
                   /\ reqs[k].head = reqs[j].owner \o <<":">> \o reqs[j].branch
    /\ Cardinality(BranchCreations) <= 1
    /\ (LiveRun /\ pc = "Done") =>
          /\ Len(CommitRequests) = 3
          /\ \A k \in 1..3 : CommitRequests[k].ok
          /\ { CommitRequests[k].path : k \in 1..3 } = DOMAIN GetFiles(manifests)
          /\ Cardinality(DOMAIN GetFiles(manifests)) = 3

\* A run that succeeded having committed the locale file first and the
\* version file last.
C34_Witness ==
    /\ LiveRun /\ pc = "Done"
    /\ Len(CommitRequests) = 3
    /\ CommitRequests[1].path = LocaleFile(manifests)
    /\ CommitRequests[3].path = VersionFile(manifests)
    /\ Last(reqs).op = "createPullRequest"

(***************************************************************************)
(* C35.  renderTemplate is deterministic: for every template and data map  *)
(* its result does not depend on the order in which the keys of the map    *)
(* are processed, also when a substituted value itself contains a token of *)
(* another key.                                                            *)
(***************************************************************************)
C35_RenderOrderIndependent ==
    render.state = "returned" =>
        \A o \in Orders(DOMAIN render.data) :
            renderTemplate(render.tmpl, render.data, o) = render.result

(***************************************************************************)
(* C36.  A live publish run never issues a Git-hosting REST request, and   *)
(* never opens a pull request, for a configuration that Validate would     *)
(* reject: in particular no pull request is opened whose installer         *)
(* document lists zero installers, and no REST request is sent with an     *)
(* empty token.                                                            *)
(***************************************************************************)
C36_NoRequestForRejectedConfig ==
    (LiveRun /\ reqs # <<>>) =>
        /\ ValidationErrors(cfg) = <<>>
        /\ Len(cfg.Installers) > 0
        /\ \A k \in 1..Len(reqs) : reqs[k].auth # <<"Bearer ">>

(***************************************************************************)
(* The publish run when every step that can be taken is eventually taken:  *)
(* each network operation returns, with a response, an error or a timeout  *)
(* (the HTTP clients carry timeouts), and nothing else in Execute waits.   *)
(***************************************************************************)
SpecLive == Spec /\ WF_vars(Next)

Count(op) == Len(SelectSeq(reqs, LAMBDA q : q.op = op))

RequestBounds ==
    /\ Len(downloads) <= Len(cfg.Installers)
    /\ Count("getCurrentUser") <= 2
    /\ Count("forkExists") <= 1
    /\ Count("createFork") <= 1
    /\ Count("getBranchSHA") <= 1
    /\ Count("createBranch") <= 1
    /\ Count("commitFile") <= 3
    /\ Count("createPullRequest") <= 1

(***************************************************************************)
(* C38.  Every publish run terminates: provided each network operation     *)
(* returns, the run eventually reaches Done or Failed, after at most one   *)
(* download per configured installer, two identity lookups, one fork       *)
(* probe, one fork creation, one ref lookup, one branch creation, three    *)
(* file commits and one PR creation.                                       *)
(***************************************************************************)
C38_PublishRunTerminates ==
    /\ [](PublishRun => RequestBounds)
    /\ PublishRun ~> (pc \in {"Done", "Failed"})
=============================================================================
